---- MODULE Spec2Model ----
(***************************************************************************)
(* A model of the QwenVoice JSON-RPC backend (server.py): the resident     *)
(* model and its recorded path, the bounded prepared-clone-context cache,  *)
(* the persistent normalized-reference cache, generation (clone, streaming *)
(* and plain paths) and the request dispatcher.                            *)
(*                                                                         *)
(* One action processes one input line to completion, as main() does.      *)
(* `log` holds, in order, everything the last processed line did that is   *)
(* visible from outside: frames written to stdout, files written, calls    *)
(* into the inference engine and the conversion utility.                   *)
(***************************************************************************)
EXTENDS Integers, Sequences, FiniteSets, TLC

VARIABLES
    pc,                     \* "start" before main() wrote ready, then "running";
                            \* "crashed" after an exception left main()
    _current_model,         \* the resident model handle, NoModel for None
    _current_model_path,    \* the recorded path, None for None
    _load_model_fn,         \* None until _ensure_mlx imported the engine
    _clone_context_cache,   \* OrderedDict as a sequence of [key, value], oldest first
    cache_dir,              \* files of CLONE_REF_CACHE_DIR: path -> [mtime, size, content]
    clip,                   \* os.stat of the reference clip the user may edit
    out_files,              \* files under the output folders: path -> audio
    voice_files,            \* files of VOICES_DIR: <<name, extension>> -> content
    now,                    \* the wall clock, in ticks
    loads,                  \* number of handles the engine has created so far
    nreq,                   \* number of input lines processed so far
    req,                    \* the last input line processed
    world,                  \* what the engine and the utilities did while it was processed
    before,                 \* the model, the caches and the files when it was read
    last_use,               \* cached key -> the time it was last inserted or hit
    exception,              \* the exception its handler raised, None if it returned
    log,                    \* what processing that line did, in order
    _next_id,               \* BackendClient: the id of the next request
    _events,                \* BackendClient: queue.Queue of the messages read, oldest first
    proc_stdin,             \* the request ids written to the backend and not yet served
    proc_stdout,            \* the lines the backend wrote and the reader has not read yet
    caller,                 \* the locals of the BackendClient.call in progress
    outcome,                \* what the last BackendClient.call returned or raised
    taken                   \* the messages that call took from the queue, in order

vars == <<pc, _current_model, _current_model_path, _load_model_fn,
          _clone_context_cache, cache_dir, clip, out_files, voice_files, now, loads, nreq,
          req, world, before, last_use, exception, log,
          _next_id, _events, proc_stdin, proc_stdout, caller, outcome, taken>>

(* the state of the benchmark client and of the two pipes to its backend *)
client_vars == <<_next_id, _events, proc_stdin, proc_stdout, caller, outcome, taken>>

(* the state of the service *)
server_vars == <<pc, _current_model, _current_model_path, _load_model_fn,
                 _clone_context_cache, cache_dir, clip, out_files, voice_files, now, loads,
                 nreq, req, world, before, last_use, exception, log>>

-----------------------------------------------------------------------------
(* Bounds of the model *)

MaxRequests == 2            \* input lines per run
MaxChunks == 2              \* segments the engine yields in one generation
MaxResidency == 3           \* input lines per run of SpecResidency
MaxTouches == 2             \* input lines after the cache was filled, in SpecLRU
MaxGenerate == 3            \* input lines per run of SpecGenerate

(* Configuration, server.py lines 38-44 *)
CLONE_CONTEXT_CACHE_CAPACITY == 8
NORMALIZED_CLONE_REF_CACHE_LIMIT == 32
NORMALIZED_CLONE_REF_MAX_AGE_SECONDS == 2592000

-----------------------------------------------------------------------------
(* Values *)

None == "None"              \* Python None where the value is otherwise a string
NoPath == <<>>              \* Python None where the value is otherwise a path
NoModel == [inst |-> 0, loaded_from |-> NoPath, can_prepare |-> FALSE]

(* str.strip() on the strings the requests of this model carry *)
Strip(s) ==
    CASE s = " hi " -> "hi"
      [] s = "   " -> ""
      [] OTHER -> s

(* MODELS, server.py lines 54-77: model_id -> folder *)
MODELS ==
    [pro_custom |-> [folder |-> "Qwen3-TTS-12Hz-1.7B-CustomVoice-8bit", output_subfolder |-> "CustomVoice"],
     pro_design |-> [folder |-> "Qwen3-TTS-12Hz-1.7B-VoiceDesign-8bit", output_subfolder |-> "VoiceDesign"],
     pro_clone  |-> [folder |-> "Qwen3-TTS-12Hz-1.7B-Base-8bit", output_subfolder |-> "Clones"]]

(* The models directory: which folders exist and the non-hidden entries of *)
(* their snapshots subdirectory, in os.listdir order.                      *)
ModelsOnDisk ==
    [f \in {MODELS[m].folder : m \in DOMAIN MODELS} |->
        CASE f = "Qwen3-TTS-12Hz-1.7B-CustomVoice-8bit" ->
                [exists |-> TRUE, snapshots |-> <<"main">>]
          [] f = "Qwen3-TTS-12Hz-1.7B-Base-8bit" ->
                [exists |-> TRUE, snapshots |-> <<>>]
          [] OTHER -> [exists |-> FALSE, snapshots |-> <<>>]]

get_smart_path(folder_name) ==
    LET d == ModelsOnDisk[folder_name] IN
    IF ~d.exists THEN NoPath
    ELSE IF d.snapshots # <<>> THEN <<"models", folder_name, "snapshots", d.snapshots[1]>>
    ELSE <<"models", folder_name>>

-----------------------------------------------------------------------------
(* JSON-RPC frames, server.py lines 220-261 *)

send_response(req_id, result) == [jsonrpc |-> "2.0", id |-> req_id, result |-> result]

send_error(req_id, code, message) ==
    [jsonrpc |-> "2.0", id |-> req_id, error |-> [code |-> code, message |-> message]]

send_notification(method, params) == [jsonrpc |-> "2.0", method |-> method, params |-> params]

send_progress(percent, message) ==
    send_notification("progress", [percent |-> percent, message |-> message])

(* chunk notifications numbered from one *)
send_generation_chunk_from_one(request_id, chunk_index, chunk_path, is_final) ==
    IF request_id = None THEN <<>>
    ELSE << [jsonrpc |-> "2.0", method |-> "generation_chunk",
             params |-> [request_id |-> request_id, chunk_index |-> chunk_index + 1,
                         chunk_path |-> chunk_path, is_final |-> is_final]] >>

(* the frames send_generation_chunk writes: none when request_id is None *)
send_generation_chunk(request_id, chunk_index, chunk_path, is_final) ==
    IF request_id = None THEN <<>>
    ELSE << send_notification("generation_chunk",
                [request_id |-> request_id, chunk_index |-> chunk_index,
                 chunk_path |-> chunk_path, is_final |-> is_final]) >>

(* entries of log that are not frames *)
Call(fn, arg) == [op |-> "call", fn |-> fn, arg |-> arg]
FileWrite(path, audio) == [op |-> "write", path |-> path, audio |-> audio]

(* a function of the service returned `value` to its caller *)
Returned(fn, value) == [op |-> "return", fn |-> fn, value |-> value]

IsFrame(e) == "jsonrpc" \in DOMAIN e
IsResponse(e) == IsFrame(e) /\ "id" \in DOMAIN e
IsSuccess(e) == IsResponse(e) /\ "result" \in DOMAIN e
IsError(e) == IsResponse(e) /\ "error" \in DOMAIN e
IsNotification(e) == IsFrame(e) /\ "method" \in DOMAIN e
IsChunkNote(e) == IsNotification(e) /\ e.method = "generation_chunk"
IsProgress(e) == IsNotification(e) /\ e.method = "progress"
IsCall(e, fn) == "op" \in DOMAIN e /\ e.op = "call" /\ e.fn = fn
IsWrite(e) == "op" \in DOMAIN e /\ e.op = "write"
IsReturn(e, fn) == "op" \in DOMAIN e /\ e.op = "return" /\ e.fn = fn

-----------------------------------------------------------------------------
(* The prepared-clone-context cache, server.py lines 293-295 and 447-452 *)

(* a clear that leaves the entries in place *)
_keep_clone_context_cache == _clone_context_cache

_clear_clone_context_cache == <<>>

Keys(cache) == {cache[i].key : i \in 1..Len(cache)}
IndexOf(cache, k) == CHOOSE i \in 1..Len(cache) : cache[i].key = k
Without(cache, k) == SelectSeq(cache, LAMBDA e : e.key # k)

(* OrderedDict.get(key): NoContext for None *)
NoContext == [by |-> 0, ref_audio |-> NoPath, ref_text |-> None]

(* a lookup that finds nothing *)
CacheGetNothing(cache, k) == NoContext

CacheGet(cache, k) ==
    IF k \in Keys(cache) THEN cache[IndexOf(cache, k)].value ELSE NoContext

(* a move that leaves the key where it is *)
stay_in_place(cache, k) == cache

(* OrderedDict.move_to_end(key) *)
move_to_end(cache, k) == Append(Without(cache, k), cache[IndexOf(cache, k)])

(* OrderedDict.__setitem__: an existing key keeps its position *)
SetItem(cache, k, v) ==
    IF k \in Keys(cache)
    THEN [i \in 1..Len(cache) |-> IF cache[i].key = k THEN [key |-> k, value |-> v] ELSE cache[i]]
    ELSE Append(cache, [key |-> k, value |-> v])

(* a loop that stops one entry above the capacity *)
RECURSIVE PopWhileOverByTwo(_)
PopWhileOverByTwo(cache) ==
    IF Len(cache) > CLONE_CONTEXT_CACHE_CAPACITY + 1
    THEN PopWhileOverByTwo(Tail(cache)) ELSE cache

(* while len(cache) > CAPACITY: popitem(last=False) *)
RECURSIVE PopWhileOver(_)
PopWhileOver(cache) ==
    IF Len(cache) > CLONE_CONTEXT_CACHE_CAPACITY THEN PopWhileOver(Tail(cache)) ELSE cache

_cache_clone_context(cache, cache_key, prepared_context) ==
    PopWhileOver(move_to_end(SetItem(cache, cache_key, prepared_context), cache_key))

-----------------------------------------------------------------------------
(* handle_load_model, server.py lines 569-611 *)

(* lines 573-586: the path to load, or the exception validation raises *)
LoadTarget(params) ==
    IF params.model_path # NoPath
    THEN [ok |-> TRUE, path |-> params.model_path]
    ELSE IF params.model_id # None
    THEN IF params.model_id \notin DOMAIN MODELS
         THEN [ok |-> FALSE, message |-> "Unknown model_id"]
         ELSE IF get_smart_path(MODELS[params.model_id].folder) = NoPath
         THEN [ok |-> FALSE, message |-> "Model not found on disk"]
         ELSE [ok |-> TRUE, path |-> get_smart_path(MODELS[params.model_id].folder)]
    ELSE [ok |-> FALSE, message |-> "Must provide model_id or model_path"]

(* The state a handler leaves and what it did: `raised` is None or the     *)
(* message of the exception that left the handler.                         *)
Outcome(raised, result, events, model, path, fn, cache, nloads) ==
    [raised |-> raised, result |-> result, events |-> events, model |-> model,
     path |-> path, fn |-> fn, cache |-> cache, loads |-> nloads]

(* a load that never recognises the resident model *)
AlwaysReload(model_path) == FALSE

(* line 589: the requested path is the one recorded for the resident model *)
AlreadyLoaded(model_path) ==
    _current_model # NoModel /\ _current_model_path = model_path

(* a load that drops the resident model before it validates the request *)
handle_load_model_unloading_first(params, eng) ==
    LET t == LoadTarget(params)
        \* lines 592-596
        unloaded == _current_model # NoModel
        cache1 == IF unloaded THEN _clear_clone_context_cache ELSE _clone_context_cache
        \* line 598
        fn1 == IF _load_model_fn = None /\ eng.import_ok THEN "load_model" ELSE _load_model_fn
        handle == [inst |-> loads + 1, loaded_from |-> t.path, can_prepare |-> eng.can_prepare]
        \* lines 593-596: the old handle is dropped and collected
        release == IF unloaded THEN <<Call("gc.collect", _current_model.inst)>> ELSE <<>>
        p10 == <<send_progress(10, "Loading model...")>>
        load == <<Call("load_model", t.path)>>
    IN
    IF ~t.ok
    THEN Outcome(t.message, None, release, NoModel, _current_model_path,
                 _load_model_fn, cache1, loads)
    ELSE IF AlreadyLoaded(t.path)
    THEN Outcome(None, [success |-> TRUE, model_path |-> t.path, cached |-> TRUE], <<>>,
                 _current_model, _current_model_path, _load_model_fn,
                 _clone_context_cache, loads)
    ELSE IF fn1 = None
    THEN Outcome("No module named 'mlx_audio'", None, release, NoModel,
                 _current_model_path, fn1, cache1, loads)
    ELSE IF eng.load = "raises"
    THEN Outcome("load_model failed", None, release \o p10 \o load,
                 NoModel, _current_model_path, fn1, cache1, loads)
    ELSE IF eng.enable = "raises"
    THEN Outcome("try_enable_speech_tokenizer_encoder failed", None,
                 release \o p10 \o load,
                 handle, _current_model_path, fn1, cache1, loads + 1)
    ELSE Outcome(None, [success |-> TRUE, model_path |-> t.path],
                 release \o p10 \o load \o <<send_progress(100, "Model loaded")>>,
                 handle, t.path, fn1, cache1, loads + 1)

(* eng.import_ok: the lazy import of the engine succeeds;                  *)
(* eng.load: "ok", or "raises" when load_model raises;                     *)
(* eng.enable: "ok", or "raises" when try_enable_speech_tokenizer_encoder  *)
(*   raises (its Path.exists() call is outside its try blocks);            *)
(* eng.can_prepare: what can_prepare_icl answers for the new handle.       *)
handle_load_model(params, eng) ==
    LET t == LoadTarget(params)
        \* lines 592-596
        unloaded == _current_model # NoModel
        cache1 == IF unloaded THEN _clear_clone_context_cache ELSE _clone_context_cache
        \* line 598
        fn1 == IF _load_model_fn = None /\ eng.import_ok THEN "load_model" ELSE _load_model_fn
        handle == [inst |-> loads + 1, loaded_from |-> t.path, can_prepare |-> eng.can_prepare]
        \* lines 593-596: the old handle is dropped and collected
        release == IF unloaded THEN <<Call("gc.collect", _current_model.inst)>> ELSE <<>>
        p10 == <<send_progress(10, "Loading model...")>>
        load == <<Call("load_model", t.path)>>
    IN
    IF ~t.ok
    THEN Outcome(t.message, None, <<>>, _current_model, _current_model_path,
                 _load_model_fn, _clone_context_cache, loads)
    ELSE IF AlreadyLoaded(t.path)
    THEN Outcome(None, [success |-> TRUE, model_path |-> t.path, cached |-> TRUE], <<>>,
                 _current_model, _current_model_path, _load_model_fn,
                 _clone_context_cache, loads)
    ELSE IF fn1 = None
    THEN Outcome("No module named 'mlx_audio'", None, release, NoModel,
                 _current_model_path, fn1, cache1, loads)
    ELSE IF eng.load = "raises"
    THEN Outcome("load_model failed", None, release \o p10 \o load,
                 NoModel, _current_model_path, fn1, cache1, loads)
    ELSE IF eng.enable = "raises"
    THEN Outcome("try_enable_speech_tokenizer_encoder failed", None,
                 release \o p10 \o load,
                 handle, _current_model_path, fn1, cache1, loads + 1)
    ELSE Outcome(None, [success |-> TRUE, model_path |-> t.path],
                 release \o p10 \o load \o <<send_progress(100, "Model loaded")>>,
                 handle, t.path, fn1, cache1, loads + 1)

(* an unload that refuses when nothing is loaded *)
handle_unload_model_when_loaded(params) ==
    IF _current_model = NoModel
    THEN Outcome("No model loaded", None, <<>>, _current_model, _current_model_path,
                 _load_model_fn, _clone_context_cache, loads)
    ELSE Outcome(None, [success |-> TRUE], <<Call("gc.collect", _current_model.inst)>>,
                 NoModel, NoPath, _load_model_fn, <<>>, loads)

(* an unload that forgets the prepared contexts of the handle it drops *)
handle_unload_model_keeps_contexts(params) ==
    Outcome(None, [success |-> TRUE], <<Call("gc.collect", _current_model.inst)>>,
            NoModel, NoPath, _load_model_fn, _clone_context_cache, loads)

(* handle_unload_model, server.py lines 614-623 *)
handle_unload_model(params) ==
    Outcome(None, [success |-> TRUE], <<Call("gc.collect", _current_model.inst)>>,
            NoModel, NoPath, _load_model_fn, _clear_clone_context_cache, loads)

(* handle_ping, server.py lines 269-270 *)
handle_ping(params) ==
    Outcome(None, [status |-> "ok"], <<>>, _current_model, _current_model_path,
            _load_model_fn, _clone_context_cache, loads)

-----------------------------------------------------------------------------
(* Reference clips on disk.  A path is a tuple of components; realpath is  *)
(* the path itself (no symbolic links among them).  The .mp3 clip is the   *)
(* one the user may edit while the service runs: its stat is `clip`.       *)

RefOnDisk(path) ==
    CASE path = <<"refs", "ref.wav">> ->
            [exists |-> TRUE, ext |-> ".wav", valid_wav |-> TRUE, st_size |-> 100,
             st_mtime_ns |-> 1, stem |-> "ref", sidecar |-> None]
      [] path = <<"refs", "voice.wav">> ->
            [exists |-> TRUE, ext |-> ".wav", valid_wav |-> TRUE, st_size |-> 200,
             st_mtime_ns |-> 2, stem |-> "voice", sidecar |-> " hi "]
      [] path = <<"refs", "a.wav">> ->
            [exists |-> TRUE, ext |-> ".wav", valid_wav |-> TRUE, st_size |-> 300,
             st_mtime_ns |-> 3, stem |-> "a", sidecar |-> None]
      [] path = <<"refs", "clip.mp3">> ->
            [exists |-> TRUE, ext |-> ".mp3", valid_wav |-> FALSE, st_size |-> clip.st_size,
             st_mtime_ns |-> clip.st_mtime_ns, stem |-> "clip", sidecar |-> None]
      [] OTHER ->
            [exists |-> FALSE, ext |-> ".wav", valid_wav |-> FALSE, st_size |-> 0,
             st_mtime_ns |-> 0, stem |-> "gone", sidecar |-> None]

(* a cache path computed from the resolved path and the size only *)
_clone_reference_cache_path_without_mtime(input_path) ==
    <<"cache", RefOnDisk(input_path).stem, input_path, RefOnDisk(input_path).st_size, 0>>

(* _clone_reference_cache_path, server.py lines 317-325: the sanitized     *)
(* stem and the digest of realpath:size:mtime_ns, the digest standing for  *)
(* the triple it is computed from.                                         *)
_clone_reference_cache_path(input_path) ==
    LET st == RefOnDisk(input_path) IN
    <<"cache", st.stem, input_path, st.st_size, st.st_mtime_ns>>

(* _convert_audio_to_wav, server.py lines 298-314.  conv is what the       *)
(* conversion utility does: "ok" (a 48-byte file); "fails" (it is missing, *)
(* or exits with an error before creating its output); "partial" (it exits *)
(* with an error after it wrote 7 bytes of its output).  The content of    *)
(* the file it writes is the audio of the source as the source is then.    *)
_convert_audio_to_wav(dir, input_path, output_path, conv) ==
    LET content == <<input_path, RefOnDisk(input_path).st_size,
                     RefOnDisk(input_path).st_mtime_ns>>
    IN
    CASE conv = "ok" ->
            [raised |-> None,
             dir |-> [p \in DOMAIN dir \cup {output_path} |->
                        IF p = output_path
                        THEN [st_mtime |-> now, st_size |-> 48, content |-> content]
                        ELSE dir[p]]]
      [] conv = "partial" ->
            [raised |-> "Could not convert audio. Is ffmpeg installed?",
             dir |-> [p \in DOMAIN dir \cup {output_path} |->
                        IF p = output_path
                        THEN [st_mtime |-> now, st_size |-> 7, content |-> content]
                        ELSE dir[p]]]
      [] OTHER ->
            [raised |-> "Could not convert audio. Is ffmpeg installed?", dir |-> dir]

(* os.listdir, lines 335 and 356: the names in the directory, in an order  *)
(* that is the platform's; the same directory is listed the same way.      *)
RECURSIVE ListingOf(_)
ListingOf(S) ==
    IF S = {} THEN <<>>
    ELSE LET x == CHOOSE x \in S : TRUE IN <<x>> \o ListingOf(S \ {x})

(* line 366, remaining.sort(key = mtime, reverse = True): newest first,    *)
(* entries of equal mtime in the order they were listed (the sort is       *)
(* stable)                                                                 *)
RECURSIVE SortedByMtime(_, _)
SortedByMtime(dir, listing) ==
    IF listing = <<>> THEN <<>>
    ELSE LET p == listing[Len(listing)]
             sorted == SortedByMtime(dir, SubSeq(listing, 1, Len(listing) - 1))
         IN SelectSeq(sorted, LAMBDA q : dir[q].st_mtime >= dir[p].st_mtime)
            \o <<p>>
            \o SelectSeq(sorted, LAMBDA q : dir[q].st_mtime < dir[p].st_mtime)

(* a pruning pass that keeps the oldest entries when over the limit *)
_prune_keeping_oldest(dir) ==
    LET entries == DOMAIN dir
        aged == {p \in entries : now - dir[p].st_mtime > NORMALIZED_CLONE_REF_MAX_AGE_SECONDS}
        remaining == SortedByMtime(dir, ListingOf(entries \ aged))
        kept == {remaining[i] :
                    i \in (Len(remaining) - NORMALIZED_CLONE_REF_CACHE_LIMIT + 1)..Len(remaining)}
    IN
    IF Len(remaining) <= NORMALIZED_CLONE_REF_CACHE_LIMIT
    THEN [p \in entries \ aged |-> dir[p]]
    ELSE [p \in kept |-> dir[p]]

(* a pruning pass that makes room by removing the newest files *)
_prune_dropping_newest(dir) ==
    LET sorted == SortedByMtime(dir, ListingOf(DOMAIN dir))
        kept == {sorted[i] : i \in (Len(sorted) - NORMALIZED_CLONE_REF_CACHE_LIMIT + 1)..Len(sorted)}
    IN
    IF Cardinality(DOMAIN dir) <= NORMALIZED_CLONE_REF_CACHE_LIMIT THEN dir
    ELSE [p \in kept |-> dir[p]]

(* a pruning pass that enforces the entry limit only *)
_prune_by_count_only(dir) ==
    LET sorted == SortedByMtime(dir, ListingOf(DOMAIN dir))
        kept == {sorted[i] : i \in 1..NORMALIZED_CLONE_REF_CACHE_LIMIT} IN
    IF Cardinality(DOMAIN dir) <= NORMALIZED_CLONE_REF_CACHE_LIMIT THEN dir
    ELSE [p \in kept |-> dir[p]]

(* _prune_normalized_clone_reference_cache, server.py lines 328-371; every *)
(* os.remove succeeds                                                      *)
_prune_normalized_clone_reference_cache(dir) ==
    LET entries == DOMAIN dir
        aged == {p \in entries : now - dir[p].st_mtime > NORMALIZED_CLONE_REF_MAX_AGE_SECONDS}
        remaining == SortedByMtime(dir, ListingOf(entries \ aged))
        kept == {remaining[i] : i \in 1..NORMALIZED_CLONE_REF_CACHE_LIMIT}
    IN
    IF Cardinality(entries) <= NORMALIZED_CLONE_REF_CACHE_LIMIT
    THEN [p \in entries \ aged |-> dir[p]]
    ELSE IF Len(remaining) <= NORMALIZED_CLONE_REF_CACHE_LIMIT
    THEN [p \in entries \ aged |-> dir[p]]
    ELSE [p \in kept |-> dir[p]]

(* handle_init, server.py lines 273-290, for a request without            *)
(* app_support_dir: the folders are created if absent and the persistent   *)
(* reference cache is pruned.                                              *)
handle_init(params) ==
    [raised |-> None,
     result |-> [status |-> "ok", models_dir |-> <<"models">>, outputs_dir |-> <<"outputs">>],
     dir |-> _prune_normalized_clone_reference_cache(cache_dir), events |-> <<>>]

(* a normalization that runs the pruning pass for a WAV source as well *)
_normalize_audio_pruning_always(dir, input_path, conv) ==
    LET st == RefOnDisk(input_path)
        cached_wav == _clone_reference_cache_path(input_path)
        c == _convert_audio_to_wav(dir, input_path, cached_wav, conv)
    IN
    IF ~st.exists
    THEN [raised |-> None, path |-> NoPath, dir |-> dir, events |-> <<>>]
    ELSE IF st.ext = ".wav" /\ st.valid_wav
    THEN [raised |-> None, path |-> input_path,
          dir |-> _prune_normalized_clone_reference_cache(dir),
          events |-> <<Returned("normalize", input_path)>>]
    ELSE IF cached_wav \in DOMAIN dir
    THEN [raised |-> None, path |-> cached_wav,
          dir |-> [dir EXCEPT ![cached_wav].st_mtime = now],
          events |-> <<Returned("normalize", cached_wav)>>]
    ELSE IF c.raised # None
    THEN [raised |-> c.raised, path |-> NoPath, dir |-> c.dir,
          events |-> <<Call("ffmpeg", <<input_path, cached_wav>>)>>]
    ELSE [raised |-> None, path |-> cached_wav,
          dir |-> _prune_normalized_clone_reference_cache(c.dir),
          events |-> <<Call("ffmpeg", <<input_path, cached_wav>>),
                       Returned("normalize", cached_wav)>>]

(* a normalization that serves a cached file without touching it *)
_normalize_audio_without_touch(dir, input_path, conv) ==
    LET st == RefOnDisk(input_path)
        cached_wav == _clone_reference_cache_path(input_path)
        c == _convert_audio_to_wav(dir, input_path, cached_wav, conv)
    IN
    IF ~st.exists
    THEN [raised |-> None, path |-> NoPath, dir |-> dir, events |-> <<>>]
    ELSE IF st.ext = ".wav" /\ st.valid_wav
    THEN [raised |-> None, path |-> input_path, dir |-> dir,
          events |-> <<Returned("normalize", input_path)>>]
    ELSE IF cached_wav \in DOMAIN dir
    THEN [raised |-> None, path |-> cached_wav, dir |-> dir,
          events |-> <<Returned("normalize", cached_wav)>>]
    ELSE IF c.raised # None
    THEN [raised |-> c.raised, path |-> NoPath, dir |-> c.dir,
          events |-> <<Call("ffmpeg", <<input_path, cached_wav>>)>>]
    ELSE [raised |-> None, path |-> cached_wav,
          dir |-> _prune_normalized_clone_reference_cache(c.dir),
          events |-> <<Call("ffmpeg", <<input_path, cached_wav>>),
                       Returned("normalize", cached_wav)>>]

(* _normalize_audio_with_stable_cache, server.py lines 374-398 *)
_normalize_audio_with_stable_cache(dir, input_path, conv) ==
    LET st == RefOnDisk(input_path)
        cached_wav == _clone_reference_cache_path(input_path)
        c == _convert_audio_to_wav(dir, input_path, cached_wav, conv)
    IN
    IF ~st.exists
    THEN [raised |-> None, path |-> NoPath, dir |-> dir, events |-> <<>>]
    ELSE IF st.ext = ".wav" /\ st.valid_wav
    THEN [raised |-> None, path |-> input_path, dir |-> dir,
          events |-> <<Returned("normalize", input_path)>>]
    ELSE IF cached_wav \in DOMAIN dir
    THEN [raised |-> None, path |-> cached_wav,
          dir |-> [dir EXCEPT ![cached_wav].st_mtime = now],
          events |-> <<Returned("normalize", cached_wav)>>]
    ELSE IF c.raised # None
    THEN [raised |-> c.raised, path |-> NoPath, dir |-> c.dir,
          events |-> <<Call("ffmpeg", <<input_path, cached_wav>>)>>]
    ELSE [raised |-> None, path |-> cached_wav,
          dir |-> _prune_normalized_clone_reference_cache(c.dir),
          events |-> <<Call("ffmpeg", <<input_path, cached_wav>>),
                       Returned("normalize", cached_wav)>>]

(* _normalize_clone_reference, server.py lines 401-411: never temporary *)
_normalize_clone_reference(dir, ref_audio_path, conv) ==
    LET n == _normalize_audio_with_stable_cache(dir, ref_audio_path, conv) IN
    [raised |-> n.raised, path |-> n.path, is_temp |-> FALSE, dir |-> n.dir,
     events |-> n.events]

(* os.stat of a normalized reference: the clip itself or a cache file *)
StatOf(dir, path) ==
    IF path \in DOMAIN dir
    THEN [st_size |-> dir[path].st_size, st_mtime_ns |-> dir[path].st_mtime]
    ELSE [st_size |-> RefOnDisk(path).st_size, st_mtime_ns |-> RefOnDisk(path).st_mtime_ns]

(* _resolve_clone_transcript, server.py lines 414-432 *)
_resolve_clone_transcript(dir, clean_ref_audio_path, requested_transcript) ==
    LET transcript == Strip(IF requested_transcript = None THEN "" ELSE requested_transcript)
        sidecar == IF clean_ref_audio_path \in DOMAIN dir THEN None
                   ELSE RefOnDisk(clean_ref_audio_path).sidecar
    IN
    IF transcript # "" THEN transcript
    ELSE IF clean_ref_audio_path = NoPath THEN None
    ELSE IF sidecar = None THEN None
    ELSE IF Strip(sidecar) = "" THEN None ELSE Strip(sidecar)

(* a key that leaves out the size and the modification time *)
_clone_cache_key_without_stat(dir, clean_ref_audio_path, ref_text) ==
    <<_current_model_path, clean_ref_audio_path, 0, 0,
      Strip(IF ref_text = None THEN "" ELSE ref_text)>>

(* a key that names the path the handle was loaded from *)
_clone_cache_key_for_handle(dir, clean_ref_audio_path, ref_text) ==
    LET st == StatOf(dir, clean_ref_audio_path) IN
    <<_current_model.loaded_from, clean_ref_audio_path, st.st_size, st.st_mtime_ns,
      Strip(IF ref_text = None THEN "" ELSE ref_text)>>

(* _clone_cache_key, server.py lines 435-444 *)
_clone_cache_key(dir, clean_ref_audio_path, ref_text) ==
    LET st == StatOf(dir, clean_ref_audio_path) IN
    <<_current_model_path, clean_ref_audio_path, st.st_size, st.st_mtime_ns,
      Strip(IF ref_text = None THEN "" ELSE ref_text)>>

NoKey == <<>>

(* the audio a normalized reference holds: the clip's own, or what the     *)
(* cache file was converted from                                           *)
AudioOf(dir, path) ==
    IF path \in DOMAIN dir THEN dir[path].content
    ELSE <<path, RefOnDisk(path).st_size, RefOnDisk(path).st_mtime_ns>>

(* prepare_icl_context, qwenvoice_speed_patch.py lines 155-267: the object *)
(* it returns is tied to the handle, the reference, the audio the          *)
(* reference holds when it is read (line 172), and the transcript.         *)
prepare_icl_context(dir, model, ref_audio, ref_text) ==
    [by |-> model.inst, ref_audio |-> ref_audio, ref_text |-> Strip(ref_text),
     audio |-> AudioOf(dir, ref_audio)]

(* a lookup that stores what it prepared whatever allow_persist says *)
_get_or_prepare_clone_context_always_persists(dir, clean_ref_audio_path, ref_text, allow_persist, prep) ==
    LET cache_key == _clone_cache_key(dir, clean_ref_audio_path, ref_text)
        prepared == prepare_icl_context(dir, _current_model, clean_ref_audio_path, ref_text)
        call == Call("prepare_icl_context", cache_key)
    IN
    IF \/ _load_model_fn = None
       \/ _current_model = NoModel
       \/ ~_current_model.can_prepare
       \/ ref_text = None \/ ref_text = ""
    THEN [raised |-> None, context |-> NoContext, hit |-> None, key |-> NoKey,
          cache |-> _clone_context_cache, events |-> <<>>]
    ELSE IF CacheGet(_clone_context_cache, cache_key) # NoContext
    THEN [raised |-> None,
          context |-> CacheGet(_clone_context_cache, cache_key),
          hit |-> "true", key |-> cache_key,
          cache |-> move_to_end(_clone_context_cache, cache_key), events |-> <<>>]
    ELSE IF prep = "raises"
    THEN [raised |-> "prepare_icl_context failed", context |-> NoContext, hit |-> None,
          key |-> NoKey, cache |-> _clone_context_cache, events |-> <<call>>]
    ELSE [raised |-> None, context |-> prepared, hit |-> "false", key |-> cache_key,
          cache |-> _cache_clone_context(_clone_context_cache, cache_key, prepared),
          events |-> <<call>>]

(* a lookup that goes to the cache and the engine without a transcript *)
_get_or_prepare_clone_context_without_transcript(dir, clean_ref_audio_path, ref_text, allow_persist, prep) ==
    LET cache_key == _clone_cache_key(dir, clean_ref_audio_path, ref_text)
        prepared == [by |-> _current_model.inst, ref_audio |-> clean_ref_audio_path,
                     ref_text |-> "", audio |-> AudioOf(dir, clean_ref_audio_path)]
        call == Call("prepare_icl_context", cache_key)
    IN
    IF \/ _load_model_fn = None
       \/ _current_model = NoModel
       \/ ~_current_model.can_prepare
    THEN [raised |-> None, context |-> NoContext, hit |-> None, key |-> NoKey,
          cache |-> _clone_context_cache, events |-> <<>>]
    ELSE IF CacheGet(_clone_context_cache, cache_key) # NoContext
    THEN [raised |-> None,
          context |-> CacheGet(_clone_context_cache, cache_key),
          hit |-> "true", key |-> cache_key,
          cache |-> move_to_end(_clone_context_cache, cache_key), events |-> <<>>]
    ELSE IF prep = "raises"
    THEN [raised |-> "prepare_icl_context failed", context |-> NoContext, hit |-> None,
          key |-> NoKey, cache |-> _clone_context_cache, events |-> <<call>>]
    ELSE [raised |-> None, context |-> prepared, hit |-> "false",
          key |-> IF allow_persist THEN cache_key ELSE NoKey,
          cache |-> IF allow_persist
                    THEN _cache_clone_context(_clone_context_cache, cache_key, prepared)
                    ELSE _clone_context_cache,
          events |-> <<call>>]

(* _get_or_prepare_clone_context, server.py lines 455-475.  prep is what   *)
(* the engine's prepare call does: "ok" or "raises".                       *)
_get_or_prepare_clone_context(dir, clean_ref_audio_path, ref_text, allow_persist, prep) ==
    LET cache_key == _clone_cache_key(dir, clean_ref_audio_path, ref_text)
        prepared == prepare_icl_context(dir, _current_model, clean_ref_audio_path, ref_text)
        call == Call("prepare_icl_context", cache_key)
    IN
    IF \/ _load_model_fn = None
       \/ _current_model = NoModel
       \/ ~_current_model.can_prepare
       \/ ref_text = None \/ ref_text = ""
    THEN [raised |-> None, context |-> NoContext, hit |-> None, key |-> NoKey,
          cache |-> _clone_context_cache, events |-> <<>>]
    ELSE IF CacheGet(_clone_context_cache, cache_key) # NoContext
    THEN [raised |-> None,
          context |-> CacheGet(_clone_context_cache, cache_key),
          hit |-> "true", key |-> cache_key,
          cache |-> move_to_end(_clone_context_cache, cache_key), events |-> <<>>]
    ELSE IF prep = "raises"
    THEN [raised |-> "prepare_icl_context failed", context |-> NoContext, hit |-> None,
          key |-> NoKey, cache |-> _clone_context_cache, events |-> <<call>>]
    ELSE [raised |-> None, context |-> prepared, hit |-> "false",
          key |-> IF allow_persist THEN cache_key ELSE NoKey,
          cache |-> IF allow_persist
                    THEN _cache_clone_context(_clone_context_cache, cache_key, prepared)
                    ELSE _clone_context_cache,
          events |-> <<call>>]

-----------------------------------------------------------------------------
(* Output paths.  A path is <<directory, stem>>, both tuples of components; *)
(* the stem is the file name without its .wav extension.                    *)

OUTPUTS_DIR == <<"outputs">>

(* make_output_path, server.py lines 190-201: the text snippet cleaned and  *)
(* cut to FILENAME_MAX_LEN, "audio" when nothing is left of it.             *)
CleanSnippet(text) ==
    CASE text = "Say it." -> "Say_it"
      [] OTHER -> "audio"

make_output_path(subfolder, text_snippet, timestamp) ==
    <<OUTPUTS_DIR \o <<subfolder>>, <<timestamp, CleanSnippet(text_snippet)>>>>

(* a resolution that looks at the voice before the reference clip *)
_resolve_final_output_path_voice_first(explicit_output_path, text, voice, ref_audio, timestamp) ==
    IF explicit_output_path # NoPath THEN explicit_output_path
    ELSE make_output_path(
            IF voice # None THEN "CustomVoice"
            ELSE IF ref_audio # NoPath THEN "Clones"
            ELSE "VoiceDesign",
            text, timestamp)

(* _resolve_final_output_path, server.py lines 478-491 *)
_resolve_final_output_path(explicit_output_path, text, voice, ref_audio, timestamp) ==
    IF explicit_output_path # NoPath THEN explicit_output_path
    ELSE make_output_path(
            IF ref_audio # NoPath THEN "Clones"
            ELSE IF voice = None THEN "VoiceDesign"
            ELSE "CustomVoice",
            text, timestamp)

(* paths that make the engine write straight to the final path *)
_derive_generation_paths_in_place(final_path) ==
    [target_dir |-> final_path[1], stem |-> final_path[2], generated_path |-> final_path]

(* _derive_generation_paths, server.py lines 494-500 *)
_derive_generation_paths(final_path) ==
    [target_dir |-> final_path[1], stem |-> final_path[2],
     generated_path |-> <<final_path[1], final_path[2] \o <<"_000">>>>]

(* f"__chunk_{chunk_index:03d}" *)
ChunkSuffix(chunk_index) ==
    <<"__chunk_000", "__chunk_001", "__chunk_002", "__chunk_003", "__chunk_004",
      "__chunk_005", "__chunk_006", "__chunk_007">>[chunk_index + 1]

(* what the file system holds after the writes and renames of `events` *)
RECURSIVE ApplyFs(_, _)
ApplyFs(files, events) ==
    IF events = <<>> THEN files
    ELSE LET e == Head(events) IN
         IF IsWrite(e)
         THEN ApplyFs([p \in DOMAIN files \cup {e.path} |->
                            IF p = e.path THEN e.audio ELSE files[p]], Tail(events))
         ELSE IF "op" \in DOMAIN e /\ e.op = "replace"
         THEN ApplyFs([p \in (DOMAIN files \ {e.src}) \cup {e.dst} |->
                            IF p = e.dst THEN files[e.src] ELSE files[p]], Tail(events))
         ELSE ApplyFs(files, Tail(events))

Replace(src, dst) == [op |-> "replace", src |-> src, dst |-> dst]

(* an assembly that keeps the first segment only *)
first_segment_only(chunk_audio) == Head(chunk_audio)

(* mx.concatenate(chunk_audio, axis=0) *)
RECURSIVE Concatenate(_)
Concatenate(chunk_audio) ==
    IF chunk_audio = <<>> THEN <<>> ELSE Head(chunk_audio) \o Concatenate(Tail(chunk_audio))

(* The engine's answer to one generation: the segments it yields, and      *)
(* whether it raises after yielding them.  The i-th segment's samples:     *)
SegmentAudio(i) == [j \in 1..i |-> i]

EngineRuns ==
    {[chunks |-> [i \in 1..n |-> SegmentAudio(i)], raises |-> r] :
        n \in 0..MaxChunks, r \in BOOLEAN}

(* a loop that notifies each chunk before it writes the chunk's file *)
RECURSIVE StreamChunksNotifyFirst(_, _, _, _)
StreamChunksNotifyFirst(request_id, paths, run, chunk_index) ==
    IF chunk_index >= Len(run.chunks) THEN <<>>
    ELSE LET chunk_path == <<paths.target_dir, paths.stem \o <<ChunkSuffix(chunk_index)>>>> IN
         send_generation_chunk(request_id, chunk_index, chunk_path,
                               ~run.raises /\ chunk_index + 1 = Len(run.chunks))
         \o << FileWrite(chunk_path, run.chunks[chunk_index + 1]) >>
         \o StreamChunksNotifyFirst(request_id, paths, run, chunk_index + 1)

(* _generate_streaming_preview, server.py lines 511-566 *)
RECURSIVE StreamChunks(_, _, _, _)
StreamChunks(request_id, paths, run, chunk_index) ==
    IF chunk_index >= Len(run.chunks) THEN <<>>
    ELSE LET chunk_path == <<paths.target_dir, paths.stem \o <<ChunkSuffix(chunk_index)>>>> IN
         << FileWrite(chunk_path, run.chunks[chunk_index + 1]) >>
         \o send_generation_chunk(request_id, chunk_index, chunk_path,
                                  ~run.raises /\ chunk_index + 1 = Len(run.chunks))
         \o StreamChunks(request_id, paths, run, chunk_index + 1)

(* a streaming generation that does not check that a segment was yielded *)
_generate_streaming_preview_unchecked(request_id, final_path, run) ==
    LET loop == <<Call("model.generate", "stream")>>
                \o StreamChunks(request_id, _derive_generation_paths(final_path), run, 0)
    IN
    IF run.raises THEN [raised |-> "generation failed", events |-> loop]
    ELSE [raised |-> None,
          events |-> loop \o <<FileWrite(final_path, Concatenate(run.chunks))>>]

_generate_streaming_preview(request_id, final_path, run) ==
    LET paths == _derive_generation_paths(final_path)
        chunk_audio == run.chunks
        loop == <<Call("model.generate", "stream")>> \o StreamChunks(request_id, paths, run, 0)
        full_audio == IF Len(chunk_audio) > 1 THEN Concatenate(chunk_audio) ELSE chunk_audio[1]
    IN
    IF run.raises THEN [raised |-> "generation failed", events |-> loop]
    ELSE IF chunk_audio = <<>>
    THEN [raised |-> "Generation produced no audio file", events |-> loop]
    ELSE [raised |-> None, events |-> loop \o <<FileWrite(final_path, full_audio)>>]

(* what a branch of handle_generate leaves and did *)
Branch(raised, events, cache, dir, flags) ==
    [raised |-> raised, events |-> events, cache |-> cache, dir |-> dir, flags |-> flags]

(* benchmark_flags as set at lines 653-660, and the cache key the request *)
(* used, if it used one                                                   *)
NoCloneFlags ==
    [prepared_clone_used |-> FALSE, clone_cache_hit |-> None, used_temp_reference |-> FALSE,
     cache_key |-> NoKey]

(* the clone branch of handle_generate, server.py lines 675-742:           *)
(* n is the normalized reference (lines 676-683), g the prepared context   *)
(* (lines 685-693)                                                         *)
CloneGenerate(final_path, run, n, g, flags) ==
    LET call == IF g.context # NoContext
                THEN Call("generate_with_prepared_icl", g.context)
                ELSE Call("model.generate", "clone")
        upto == n.events \o g.events \o <<call>>
    IN
    IF g.raised # None THEN Branch(g.raised, n.events \o g.events, g.cache, n.dir, flags)
    ELSE IF run.raises THEN Branch("generation failed", upto, g.cache, n.dir, flags)
    ELSE IF run.chunks = <<>>
    THEN Branch("Generation produced no audio file", upto, g.cache, n.dir, flags)
    ELSE Branch(None,
                upto \o <<send_progress(80, "Saving audio..."),
                          FileWrite(final_path, run.chunks[1])>>,
                g.cache, n.dir, flags)

ClonePrepared(final_path, run, n, g) ==
    CloneGenerate(final_path, run, n, g,
                  [prepared_clone_used |-> g.context # NoContext,
                   clone_cache_hit |-> g.hit, used_temp_reference |-> n.is_temp,
                   cache_key |-> g.key])

CloneNormalized(params, final_path, env, n) ==
    IF n.raised # None
    THEN Branch(n.raised, n.events, _clone_context_cache, n.dir, NoCloneFlags)
    ELSE IF n.path = NoPath
    THEN Branch("Could not process reference audio file", n.events, _clone_context_cache,
                n.dir, NoCloneFlags)
    ELSE ClonePrepared(final_path, env.run, n,
            _get_or_prepare_clone_context(n.dir, n.path,
                _resolve_clone_transcript(n.dir, n.path, params.ref_text),
                ~n.is_temp, env.prepare))

GenerateClone(params, final_path, env) ==
    CloneNormalized(params, final_path, env,
                    _normalize_clone_reference(cache_dir, params.ref_audio, env.conv))

(* the streaming branch, server.py lines 743-758 *)
StreamBranch(s) ==
    Branch(s.raised,
           <<send_progress(40, "Streaming audio...")>> \o s.events
           \o (IF s.raised # None THEN <<>> ELSE <<send_progress(80, "Saving audio...")>>),
           _clone_context_cache, cache_dir, NoCloneFlags)

GenerateStream(request_id, final_path, env) ==
    StreamBranch(_generate_streaming_preview(request_id, final_path, env.run))

(* the plain branch, server.py lines 759-789: generate_audio writes        *)
(* {file_prefix}_000.wav into the target directory when it produced audio. *)
PlainBranch(final_path, run, generated_path, engine) ==
    LET p80 == <<send_progress(80, "Saving audio...")>> IN
    IF run.raises
    THEN Branch("generation failed", engine, _clone_context_cache, cache_dir, NoCloneFlags)
    ELSE IF generated_path \notin DOMAIN ApplyFs(out_files, engine)
    THEN Branch("Generation produced no audio file", engine \o p80,
                _clone_context_cache, cache_dir, NoCloneFlags)
    ELSE Branch(None,
                engine \o p80 \o
                (IF generated_path # final_path
                 THEN <<Replace(generated_path, final_path)>> ELSE <<>>),
                _clone_context_cache, cache_dir, NoCloneFlags)

GeneratePlain(final_path, env) ==
    PlainBranch(final_path, env.run, _derive_generation_paths(final_path).generated_path,
        <<Call("generate_audio", _derive_generation_paths(final_path).stem)>>
        \o (IF env.run.chunks # <<>>
            THEN <<FileWrite(_derive_generation_paths(final_path).generated_path,
                             env.run.chunks[1])>>
            ELSE <<>>))

(* what handle_generate leaves and did *)
Generated(raised, result, events, cache, dir, flags) ==
    [raised |-> raised, result |-> result, events |-> events, cache |-> cache, dir |-> dir,
     flags |-> flags]

(* a result that is not announced by the "Done" progress when the request  *)
(* asks for benchmark data                                                 *)
GenerateResultQuietBenchmark(params, request_id, final_path, b) ==
    LET events == <<send_progress(20, "Generating audio...")>> \o b.events
        duration == Len(ApplyFs(out_files, events)[final_path])
    IN
    IF b.raised # None THEN Generated(b.raised, None, events, b.cache, b.dir, b.flags)
    ELSE IF params.benchmark
    THEN Generated(None,
                   [audio_path |-> final_path, duration_seconds |-> duration,
                    benchmark |-> [mode |-> "clone"]],
                   events, b.cache, b.dir, b.flags)
    ELSE Generated(None, [audio_path |-> final_path, duration_seconds |-> duration],
                   events \o <<send_progress(100, "Done")>>, b.cache, b.dir, b.flags)

(* lines 791-805, after the branch b ran *)
GenerateResult(params, request_id, final_path, b) ==
    LET events == <<send_progress(20, "Generating audio...")>> \o b.events
        benchmark_mode == IF params.ref_audio # NoPath THEN "clone"
                          ELSE IF params.voice # None THEN "custom" ELSE "design"
        benchmark_flags ==
            [label |-> benchmark_mode, mode |-> benchmark_mode,
             prepared_clone_used |-> b.flags.prepared_clone_used,
             clone_cache_hit |-> b.flags.clone_cache_hit,
             used_temp_reference |-> b.flags.used_temp_reference,
             streaming_used |->
                params.stream /\ request_id # None /\ params.ref_audio = NoPath]
        duration == Len(ApplyFs(out_files, events)[final_path])
    IN
    IF b.raised # None THEN Generated(b.raised, None, events, b.cache, b.dir, b.flags)
    ELSE Generated(None,
           IF params.benchmark
           THEN [audio_path |-> final_path, duration_seconds |-> duration,
                 benchmark |-> benchmark_flags]
           ELSE [audio_path |-> final_path, duration_seconds |-> duration],
           events \o <<send_progress(100, "Done")>>, b.cache, b.dir, b.flags)

(* a choice of branch that looks at the stream flag first *)
GenerateBranchStreamFirst(params, request_id, final_path, env) ==
    IF params.stream /\ request_id # None
    THEN GenerateStream(request_id, final_path, env)
    ELSE IF params.ref_audio # NoPath THEN GenerateClone(params, final_path, env)
    ELSE GeneratePlain(final_path, env)

(* lines 669-790: the branch taken *)
GenerateBranch(params, request_id, final_path, env) ==
    IF params.ref_audio # NoPath THEN GenerateClone(params, final_path, env)
    ELSE IF params.stream /\ request_id # None
    THEN GenerateStream(request_id, final_path, env)
    ELSE GeneratePlain(final_path, env)

GenerateAt(params, request_id, final_path, env) ==
    GenerateResult(params, request_id, final_path,
                   GenerateBranch(params, request_id, final_path, env))

(* handle_generate, server.py lines 626-811 *)
handle_generate(params, request_id, env) ==
    IF _current_model = NoModel
    THEN Generated("No model loaded. Call load_model first.", None, <<>>,
                   _clone_context_cache, cache_dir, NoCloneFlags)
    ELSE IF Strip(IF params.text = None THEN "" ELSE params.text) = ""
    THEN Generated("Missing required param: text", None, <<>>,
                   _clone_context_cache, cache_dir, NoCloneFlags)
    ELSE GenerateAt(params, request_id,
            _resolve_final_output_path(params.output_path,
                Strip(IF params.text = None THEN "" ELSE params.text),
                params.voice, params.ref_audio, env.timestamp),
            env)

-----------------------------------------------------------------------------
(* Enrolled voices.  A file of VOICES_DIR is <<name, extension>>. *)

(* a sanitization that removes the punctuation and keeps the spaces *)
SafeNameKeepsSpaces(name) ==
    CASE name = "Test Voice!" -> "Test Voice"
      [] name = " a b " -> "a b"
      [] name = "!?" -> ""
      [] OTHER -> name

(* re.sub(r"[^\w\s-]", "", name).strip().replace(" ", "_"), lines 858 and *)
(* 894, on the names the requests of this model carry                      *)
SafeName(name) ==
    CASE name = "Test Voice!" -> "Test_Voice"
      [] name = " a b " -> "a_b"
      [] name = "!?" -> ""
      [] OTHER -> name

(* sorted(), line 837, on the sanitized names: "T" sorts before "a" *)
NameOrder == <<"Test_Voice", "a_b">>

(* the directory after `content` was written to the file `name` *)
WriteFile(files, name, content) ==
    [f \in DOMAIN files \cup {name} |-> IF f = name THEN content ELSE files[f]]

(* what a voice handler leaves and did *)
Voiced(raised, result, dir, voices, events) ==
    [raised |-> raised, result |-> result, dir |-> dir, voices |-> voices, events |-> events]

(* handle_enroll_voice lines 866-883, after the reference was normalized   *)
(* to n                                                                    *)
EnrollNormalized(params, safe_name, n) ==
    IF n.raised # None THEN Voiced(n.raised, None, n.dir, voice_files, n.events)
    ELSE IF n.path = NoPath
    THEN Voiced("Could not process audio file", None, n.dir, voice_files, n.events)
    ELSE Voiced(None,
                [success |-> TRUE, name |-> safe_name,
                 wav_path |-> <<"voices", safe_name, ".wav">>],
                n.dir,
                IF params.transcript # None /\ params.transcript # ""
                THEN WriteFile(WriteFile(voice_files, <<safe_name, ".wav">>,
                                         AudioOf(n.dir, n.path)),
                               <<safe_name, ".txt">>, params.transcript)
                ELSE WriteFile(voice_files, <<safe_name, ".wav">>, AudioOf(n.dir, n.path)),
                n.events)

(* handle_enroll_voice, server.py lines 850-883 *)
handle_enroll_voice(params, conv) ==
    IF params.name = None \/ params.name = "" \/ params.audio_path = NoPath
    THEN Voiced("Missing required params: name, audio_path", None, cache_dir, voice_files, <<>>)
    ELSE IF SafeName(params.name) = ""
    THEN Voiced("Invalid voice name", None, cache_dir, voice_files, <<>>)
    ELSE EnrollNormalized(params, SafeName(params.name),
                          _normalize_clone_reference(cache_dir, params.audio_path, conv))

(* handle_list_voices, server.py lines 831-847 *)
handle_list_voices(params) ==
    LET names == SelectSeq(NameOrder, LAMBDA name : <<name, ".wav">> \in DOMAIN voice_files) IN
    Voiced(None,
           [i \in 1..Len(names) |->
               [name |-> names[i],
                has_transcript |-> <<names[i], ".txt">> \in DOMAIN voice_files,
                wav_path |-> <<"voices", names[i], ".wav">>]],
           cache_dir, voice_files, <<>>)

(* a delete that leaves the transcript of the voice behind *)
handle_delete_voice_keeps_transcript(params) ==
    LET safe_name == SafeName(params.name)
        wav_path == <<safe_name, ".wav">>
    IN
    IF params.name = None \/ params.name = ""
    THEN Voiced("Missing required param: name", None, cache_dir, voice_files, <<>>)
    ELSE IF safe_name = ""
    THEN Voiced("Invalid voice name", None, cache_dir, voice_files, <<>>)
    ELSE Voiced(None, [success |-> wav_path \in DOMAIN voice_files], cache_dir,
                [f \in DOMAIN voice_files \ {wav_path} |-> voice_files[f]], <<>>)

(* handle_delete_voice, server.py lines 886-906 *)
handle_delete_voice(params) ==
    LET safe_name == SafeName(params.name)
        wav_path == <<safe_name, ".wav">>
        txt_path == <<safe_name, ".txt">>
    IN
    IF params.name = None \/ params.name = ""
    THEN Voiced("Missing required param: name", None, cache_dir, voice_files, <<>>)
    ELSE IF safe_name = ""
    THEN Voiced("Invalid voice name", None, cache_dir, voice_files, <<>>)
    ELSE Voiced(None, [success |-> wav_path \in DOMAIN voice_files], cache_dir,
                [f \in DOMAIN voice_files \ {wav_path, txt_path} |-> voice_files[f]], <<>>)

-----------------------------------------------------------------------------
(* convert_audio, server.py lines 171-187 and 815-829 *)

TicksPerSecond == 2         \* input lines the service can read within one second

(* int(time.time()), line 186: the whole seconds of the clock *)
WholeSeconds(tick) == tick \div TicksPerSecond

(* line 186: temp_convert_{int(time.time())}.wav under OUTPUTS_DIR *)
TempName(tick) == <<OUTPUTS_DIR, <<"temp_convert", WholeSeconds(tick)>>>>

(* convert_audio_if_needed, server.py lines 171-187 *)
convert_audio_if_needed(input_path, conv) ==
    LET st == RefOnDisk(input_path)
        temp_wav == TempName(now)
        c == _convert_audio_to_wav(<<>>, input_path, temp_wav, conv)
        ffmpeg == <<Call("ffmpeg", <<input_path, temp_wav>>)>>
    IN
    IF ~st.exists THEN [raised |-> None, path |-> NoPath, events |-> <<>>]
    ELSE IF st.ext = ".wav" /\ st.valid_wav
    THEN [raised |-> None, path |-> input_path, events |-> <<>>]
    ELSE [raised |-> c.raised,
          path |-> IF c.raised = None THEN temp_wav ELSE NoPath,
          events |-> IF temp_wav \in DOMAIN c.dir
                     THEN ffmpeg \o <<FileWrite(temp_wav, c.dir[temp_wav].content)>>
                     ELSE ffmpeg]

(* handle_convert_audio, server.py lines 815-829 *)
handle_convert_audio(params, conv) ==
    LET c == convert_audio_if_needed(params.input_path, conv) IN
    IF params.input_path = NoPath
    THEN [raised |-> "Missing required param: input_path", result |-> None, events |-> <<>>]
    ELSE IF c.raised # None
    THEN [raised |-> c.raised, result |-> None, events |-> c.events]
    ELSE IF params.output_path # NoPath /\ c.path # NoPath /\ c.path # params.input_path
    THEN [raised |-> None, result |-> [wav_path |-> params.output_path],
          events |-> c.events \o <<Replace(c.path, params.output_path)>>]
    ELSE [raised |-> None, result |-> [wav_path |-> c.path], events |-> c.events]

-----------------------------------------------------------------------------
(* process_request and main, server.py lines 962-999 *)

METHODS == {"ping", "init", "load_model", "unload_model", "generate", "convert_audio",
            "list_voices", "enroll_voice", "delete_voice", "get_model_info", "get_speakers"}

(* an error frame that does not echo the request's id *)
ReplyAnonymously(req_id, h) ==
    IF h.raised = None THEN [jsonrpc |-> "2.0", id |-> req_id, result |-> h.result]
    ELSE [jsonrpc |-> "2.0", id |-> None,
          error |-> [code |-> -32000, message |-> h.raised]]

(* an error frame with the generic internal-error code and no message of  *)
(* the exception                                                           *)
ReplyInternalError(req_id, h) ==
    IF h.raised = None THEN [jsonrpc |-> "2.0", id |-> req_id, result |-> h.result]
    ELSE [jsonrpc |-> "2.0", id |-> req_id,
          error |-> [code |-> -32603, message |-> "Internal error"]]

(* an unknown method reported as a line that could not be parsed *)
NotFoundAsParseError(req_id, method) ==
    [jsonrpc |-> "2.0", id |-> None, error |-> [code |-> -32700, message |-> "Parse error"]]

(* lines 974-976: the answer to a method that is not registered *)
NotFound(req_id, method) == send_error(req_id, -32601, "Method not found")

(* lines 978-987: the handler's result, or its exception as an error *)
Reply(req_id, h) ==
    IF h.raised = None THEN send_response(req_id, h.result)
    ELSE send_error(req_id, -32000, h.raised)

Request(req_id, method, params) ==
    [kind |-> "request", id |-> req_id, method |-> method, params |-> params]

PathA == get_smart_path(MODELS["pro_custom"].folder)
PathB == get_smart_path(MODELS["pro_clone"].folder)

LoadById(ids) == {[model_id |-> m, model_path |-> NoPath] : m \in ids}

(* the engine during load_model: the import fails; load_model raises; the  *)
(* encoder repair raises; or the load succeeds                             *)
ImportFails == [import_ok |-> FALSE, load |-> "ok", enable |-> "ok", can_prepare |-> FALSE]
LoadRaises == [import_ok |-> TRUE, load |-> "raises", enable |-> "ok", can_prepare |-> FALSE]
EnableRaises == [import_ok |-> TRUE, load |-> "ok", enable |-> "raises", can_prepare |-> TRUE]
Loads(can_prepare) ==
    [import_ok |-> TRUE, load |-> "ok", enable |-> "ok", can_prepare |-> can_prepare]

ExplicitOutput == <<<<"tmp">>, <<"o">>>>

GenDefaults ==
    [text |-> "Say it.", output_path |-> ExplicitOutput, voice |-> None, instruct |-> None,
     ref_audio |-> NoPath, ref_text |-> None, stream |-> FALSE, benchmark |-> FALSE]

CloneParams(refs, texts) ==
    {[GenDefaults EXCEPT !.ref_audio = r, !.ref_text = t, !.benchmark = TRUE] :
        r \in refs, t \in texts}

StreamParams(outputs) ==
    {[GenDefaults EXCEPT !.voice = "ryan", !.stream = TRUE, !.output_path = o] :
        o \in outputs}

PlainParams(outputs) ==
    {[GenDefaults EXCEPT !.instruct = "calm", !.output_path = o] : o \in outputs}

Timestamps == {"09-30-00-000001"}

(* what the outside world does during one generate: only the parts the     *)
(* request's branch reads vary                                             *)
GenEnvs(params, prepares, runs) ==
    {[timestamp |-> ts, conv |-> c, prepare |-> pr, run |-> run] :
        ts \in Timestamps,
        c \in IF params.ref_audio # NoPath /\ ~RefOnDisk(params.ref_audio).valid_wav
                 /\ RefOnDisk(params.ref_audio).exists
              THEN {"ok", "fails", "partial"} ELSE {"ok"},
        pr \in IF params.ref_audio # NoPath THEN prepares ELSE {"ok"},
        run \in runs}

NoWorld == [kind |-> "none"]

(* the line processed last, as the next line finds it: what it asked for,  *)
(* the error code it was answered with (0 when it was not an error), what  *)
(* its normalization returned, whether the conversion utility was run, the *)
(* clone_cache_hit flag it reported, and the stat the clip had while it    *)
(* was processed                                                           *)
PrevLine(clip_then) ==
    [kind |-> req.kind,
     method |-> IF req.kind = "request" THEN req.method ELSE None,
     code |-> IF log # <<>> /\ IsError(log[Len(log)]) THEN log[Len(log)].error.code ELSE 0,
     ref_audio |-> IF req.kind = "request" /\ req.method = "generate"
                   THEN req.params.ref_audio ELSE NoPath,
     ref_text |-> IF req.kind = "request" /\ req.method = "generate"
                  THEN req.params.ref_text ELSE None,
     clean |-> IF \E i \in 1..Len(log) : IsReturn(log[i], "normalize")
               THEN log[CHOOSE i \in 1..Len(log) : IsReturn(log[i], "normalize")].value
               ELSE NoPath,
     ffmpeg |-> \E i \in 1..Len(log) : IsCall(log[i], "ffmpeg"),
     hit |-> IF req.kind = "request" /\ req.method = "generate"
                /\ log # <<>> /\ IsSuccess(log[Len(log)])
                /\ "benchmark" \in DOMAIN log[Len(log)].result
             THEN log[Len(log)].result.benchmark.clone_cache_hit ELSE None,
     name |-> IF req.kind = "request" /\ req.method \in {"enroll_voice", "delete_voice"}
              THEN req.params.name ELSE None,
     clip |-> clip_then]

SnapshotWith(clip_then) ==
    [model |-> _current_model, path |-> _current_model_path, cache |-> _clone_context_cache,
     dir |-> cache_dir, files |-> out_files, voices |-> voice_files, last_use |-> last_use,
     clip |-> clip,
     prev |-> PrevLine(clip_then)]

Snapshot == SnapshotWith(before.clip)

(* the state after construction, the persistent reference cache holding    *)
(* what earlier runs of the service left in it                             *)
InitWith(dirs) ==
    /\ pc = "start"
    /\ _current_model = NoModel
    /\ _current_model_path = NoPath
    /\ _load_model_fn = None
    /\ _clone_context_cache = <<>>
    /\ cache_dir \in dirs
    /\ clip = [st_size |-> 400, st_mtime_ns |-> 4]
    /\ out_files = <<>>
    /\ voice_files = <<>>
    /\ now = 1
    /\ loads = 0
    /\ nreq = 0
    /\ req = [kind |-> "none"]
    /\ world = NoWorld
    /\ last_use = <<>>
    /\ exception = None
    /\ log = <<>>
    /\ before = SnapshotWith(clip)
    /\ _next_id = 1
    /\ _events = <<>>
    /\ proc_stdin = <<>>
    /\ proc_stdout = <<>>
    /\ caller = [pc |-> "idle"]
    /\ outcome = [kind |-> "none"]
    /\ taken = <<>>

Init == InitWith({<<>>})

(* a start that announces nothing *)
StartSilently ==
    /\ pc = "start"
    /\ pc' = "running"
    /\ log' = <<>>
    /\ UNCHANGED <<_current_model, _current_model_path, _load_model_fn,
                   _clone_context_cache, cache_dir, clip, out_files, voice_files, now, loads,
                   nreq, req, world, before, last_use, exception>>
    /\ UNCHANGED client_vars

(* main, line 993: the ready notification, before the first line is read *)
Start ==
    /\ pc = "start"
    /\ pc' = "running"
    /\ log' = <<send_notification("ready", [version |-> "1.0.0"])>>
    /\ UNCHANGED <<_current_model, _current_model_path, _load_model_fn,
                   _clone_context_cache, cache_dir, clip, out_files, voice_files, now, loads, nreq, req,
                   world, before, last_use, exception>>
    /\ UNCHANGED client_vars

(* main, lines 995-996: one more non-blank line arrives, some time after   *)
(* the last                                                                *)
TakeLine(max, r, w) ==
    /\ pc = "running"
    /\ nreq < max
    /\ nreq' = nreq + 1
    /\ now' = now + 1
    /\ req' = r
    /\ world' = w
    /\ before' = Snapshot
    /\ clip' = clip
    /\ UNCHANGED client_vars

(* main, lines 995-999: the line is processed and the loop goes on *)
ReadLine(max, r, w) ==
    /\ TakeLine(max, r, w)
    /\ pc' = pc

(* a line that is not JSON, lines 964-968 *)
ParseError(max) ==
    /\ ReadLine(max, [kind |-> "malformed"], NoWorld)
    /\ log' = <<send_error(None, -32700, "Parse error")>>
    /\ exception' = None
    /\ UNCHANGED <<_current_model, _current_model_path, _load_model_fn,
                   _clone_context_cache, cache_dir, out_files, voice_files, loads,
                       last_use>>

(* a line that is JSON but not an object ([], 42, "x", null), lines        *)
(* 965-972: json.loads returns a list, a number, a string or None, and     *)
(* req.get raises AttributeError outside every try; neither                *)
(* process_request nor main catches it, so the interpreter writes the      *)
(* traceback to stderr and exits.  Nothing is written to stdout.           *)
NonObject(max, texts) ==
    \E t \in texts :
        /\ TakeLine(max, [kind |-> "nonobject", text |-> t], NoWorld)
        /\ pc' = "crashed"
        /\ log' = <<>>
        /\ exception' = None
        /\ UNCHANGED <<_current_model, _current_model_path, _load_model_fn,
                       _clone_context_cache, cache_dir, out_files, voice_files, loads,
                       last_use>>

(* a method that is not registered, lines 974-976 *)
MethodNotFound(max, ids) ==
    \E id \in ids, m \in {"frobnicate"} :
        /\ m \notin METHODS
        /\ ReadLine(max, Request(id, m, <<>>), NoWorld)
        /\ log' = <<NotFound(id, m)>>
        /\ exception' = None
        /\ UNCHANGED <<_current_model, _current_model_path, _load_model_fn,
                       _clone_context_cache, cache_dir, out_files, voice_files, loads,
                       last_use>>

(* the times of last use of the keys that are still cached, after the     *)
(* cache became `cache` and the line being processed used key `used`       *)
LastUse(cache, used) ==
    [k \in Keys(cache) |-> IF k = used THEN now + 1 ELSE last_use[k]]

(* a handler that touches the model and the context cache only *)
Lifecycle(id, h) ==
    /\ _current_model' = h.model
    /\ _current_model_path' = h.path
    /\ _load_model_fn' = h.fn
    /\ _clone_context_cache' = h.cache
    /\ loads' = h.loads
    /\ last_use' = LastUse(h.cache, NoKey)
    /\ log' = Append(h.events, Reply(id, h))
    /\ exception' = h.raised
    /\ UNCHANGED <<cache_dir, out_files, voice_files>>

Ping(max, ids) ==
    \E id \in ids :
        /\ ReadLine(max, Request(id, "ping", <<>>), NoWorld)
        /\ Lifecycle(id, handle_ping(<<>>))

LoadModel(max, ids, paramset, engines) ==
    \E id \in ids, params \in paramset, eng \in engines :
        /\ ReadLine(max, Request(id, "load_model", params), eng)
        /\ Lifecycle(id, handle_load_model(params, eng))

UnloadModel(max, ids) ==
    \E id \in ids :
        /\ ReadLine(max, Request(id, "unload_model", <<>>), NoWorld)
        /\ Lifecycle(id, handle_unload_model(<<>>))

GenerateStep(max, id, params, env, h) ==
    /\ ReadLine(max, Request(id, "generate", params), env)
    /\ _clone_context_cache' = h.cache
    /\ cache_dir' = h.dir
    /\ out_files' = ApplyFs(out_files, h.events)
    /\ voice_files' = voice_files
    /\ last_use' = LastUse(h.cache, h.flags.cache_key)
    /\ log' = Append(h.events, Reply(id, h))
    /\ exception' = h.raised
    /\ UNCHANGED <<_current_model, _current_model_path, _load_model_fn, loads>>

Generate(max, ids, paramset, prepares, runs) ==
    \E id \in ids, params \in paramset :
        \E env \in GenEnvs(params, prepares, runs) :
            GenerateStep(max, id, params, env, handle_generate(params, id, env))

(* a handler that touches the voices and the reference cache only *)
VoiceStep(id, h) ==
    /\ cache_dir' = h.dir
    /\ voice_files' = h.voices
    /\ log' = Append(h.events, Reply(id, h))
    /\ exception' = h.raised
    /\ UNCHANGED <<_current_model, _current_model_path, _load_model_fn,
                   _clone_context_cache, out_files, loads, last_use>>

EnrollVoice(max, ids, paramset, convs) ==
    \E id \in ids, params \in paramset, conv \in convs :
        /\ ReadLine(max, Request(id, "enroll_voice", params), [kind |-> "enroll", conv |-> conv])
        /\ VoiceStep(id, handle_enroll_voice(params, conv))

ListVoices(max, ids) ==
    \E id \in ids :
        /\ ReadLine(max, Request(id, "list_voices", <<>>), NoWorld)
        /\ VoiceStep(id, handle_list_voices(<<>>))

DeleteVoice(max, ids, names) ==
    \E id \in ids, name \in names :
        /\ ReadLine(max, Request(id, "delete_voice", [name |-> name]), NoWorld)
        /\ VoiceStep(id, handle_delete_voice([name |-> name]))

ConvertAudio(max, ids, paramset, convs) ==
    \E id \in ids, params \in paramset, conv \in convs :
        LET h == handle_convert_audio(params, conv) IN
        /\ ReadLine(max, Request(id, "convert_audio", params), [kind |-> "convert", conv |-> conv])
        /\ out_files' = ApplyFs(out_files, h.events)
        /\ log' = Append(h.events, Reply(id, h))
        /\ exception' = h.raised
        /\ UNCHANGED <<_current_model, _current_model_path, _load_model_fn,
                       _clone_context_cache, cache_dir, voice_files, loads, last_use>>

InitPaths(max, ids) ==
    \E id \in ids :
        /\ ReadLine(max, Request(id, "init", <<>>), NoWorld)
        /\ cache_dir' = handle_init(<<>>).dir
        /\ log' = Append(handle_init(<<>>).events, Reply(id, handle_init(<<>>)))
        /\ exception' = handle_init(<<>>).raised
        /\ UNCHANGED <<_current_model, _current_model_path, _load_model_fn,
                       _clone_context_cache, out_files, voice_files, loads, last_use>>

(* between two lines the user edits the reference clip: "touch" changes    *)
(* its modification time only, "resize" its size only (the time restored)  *)
EditClip(max, kinds) ==
    \E kind \in kinds :
        /\ pc = "running"
        /\ (clip.st_size - 400) + (clip.st_mtime_ns - 4) < max
        /\ clip' = IF kind = "touch"
                   THEN [clip EXCEPT !.st_mtime_ns = clip.st_mtime_ns + 1]
                   ELSE [clip EXCEPT !.st_size = clip.st_size + 1]
        /\ UNCHANGED <<pc, _current_model, _current_model_path, _load_model_fn,
                       _clone_context_cache, cache_dir, out_files, voice_files, now, loads, nreq, req,
                       world, before, last_use, exception, log>>
        /\ UNCHANGED client_vars

-----------------------------------------------------------------------------
(* The dispatcher: every kind of line, from the start of the process *)

InvalidText == {[GenDefaults EXCEPT !.text = "   "]}
RefWav == <<"refs", "ref.wav">>

Next ==
    \/ Start
    \/ ParseError(MaxRequests)
    \/ NonObject(MaxRequests, {"[]", "42"})
    \/ MethodNotFound(MaxRequests, {"r1", None})
    \/ Ping(MaxRequests, {"r1", None})
    \/ LoadModel(MaxRequests, {"r1"}, LoadById({"pro_custom", "pro_max"}),
                 {Loads(TRUE), LoadRaises})
    \/ UnloadModel(MaxRequests, {"r1"})
    \/ Generate(MaxRequests, {"r1", None},
                InvalidText \cup CloneParams({RefWav}, {" hi "})
                \cup StreamParams({ExplicitOutput}) \cup PlainParams({NoPath}),
                {"ok"}, EngineRuns)

Spec == Init /\ [][Next]_vars

IsRequest(method) == req.kind = "request" /\ req.method = method

(* the frames of the last line that answer a request *)
Responses == SelectSeq(log, IsResponse)

(* C10: for a request that carries an identifier the dispatcher writes    *)
(* exactly one response frame, with that identifier and with either a      *)
(* result or an error, never both; it is the last thing the request wrote, *)
(* after all of its notifications, and the line is done when the next one  *)
(* is read.                                                                *)
C10_OneResponsePerRequest ==
    (req.kind = "request" /\ req.id # None) =>
        /\ Len(Responses) = 1
        /\ Responses[1].id = req.id
        /\ IsSuccess(Responses[1]) # IsError(Responses[1])
        /\ log[Len(log)] = Responses[1]
        /\ \A i \in 1..(Len(log) - 1) : ~IsResponse(log[i])

(* a streaming generation: chunk and progress notifications, then its one  *)
(* success response                                                        *)
C10_Witness ==
    /\ IsRequest("generate") /\ req.id = "r1"
    /\ Len(log) >= 3
    /\ \E i \in 1..(Len(log) - 1) : IsChunkNote(log[i])
    /\ \E i \in 1..(Len(log) - 1) : IsProgress(log[i])
    /\ IsSuccess(log[Len(log)])

IsReady(e) == IsNotification(e) /\ e.method = "ready"

(* C25: the ready notification is the first frame the process writes:      *)
(* nothing is written and no line is processed before it, it is the only   *)
(* frame written before the first line is read, no line that is processed  *)
(* writes it again, and the process never returns to the point before it.  *)
C25_ReadyOnceAndFirst ==
    /\ [](/\ pc = "start" => log = <<>> /\ nreq = 0
          /\ (pc = "running" /\ nreq = 0) =>
                log = <<[jsonrpc |-> "2.0", method |-> "ready",
                         params |-> [version |-> "1.0.0"]]>>
          /\ nreq >= 1 => \A i \in 1..Len(log) : ~IsReady(log[i]))
    /\ [][pc # "start" => pc' # "start"]_vars

(* a request wrote notifications and a response, none of them ready *)
C25_Witness ==
    /\ nreq = MaxRequests
    /\ IsRequest("generate")
    /\ \E i \in 1..Len(log) : IsNotification(log[i])
    /\ IsSuccess(log[Len(log)])
    /\ \A i \in 1..Len(log) : ~IsReady(log[i])

(* the model, its recorded path, the engine entry point, the context cache *)
(* and the files are as they were when the line was read                   *)
ServiceUntouched ==
    /\ _current_model = before.model
    /\ _current_model_path = before.path
    /\ _clone_context_cache = before.cache
    /\ cache_dir = before.dir
    /\ out_files = before.files

PingAnswered ==
    log = <<[jsonrpc |-> "2.0", id |-> req.id, result |-> [status |-> "ok"]]>>

(* C11: when the handler of a request raised an exception, the request is  *)
(* answered by exactly one error frame, the last thing it wrote, with code *)
(* -32000, the exception's message and the request's id; the main loop     *)
(* keeps running, and a ping that is the next line is answered with        *)
(* status ok.                                                              *)
C11_HandlerExceptionIsOneError ==
    /\ exception # None =>
          /\ req.kind = "request" /\ req.method \in METHODS
          /\ Len(Responses) = 1
          /\ Responses[1] = [jsonrpc |-> "2.0", id |-> req.id,
                             error |-> [code |-> -32000, message |-> exception]]
          /\ log[Len(log)] = Responses[1]
          /\ pc = "running"
    /\ (IsRequest("ping") /\ before.prev.code = -32000) => PingAnswered /\ pc = "running"

(* a generate that failed in its handler, then a ping that was answered *)
C11_Witness ==
    /\ IsRequest("ping")
    /\ before.prev.method = "generate" /\ before.prev.code = -32000
    /\ PingAnswered

(* C13 as stated: a non-blank line from which no request object can be     *)
(* built, malformed JSON or JSON that is not an object, is answered by     *)
(* exactly one error frame with a null id and code -32700, reaches no      *)
(* handler, changes nothing in the service, and the loop keeps running.    *)
C13_UnparsableLineIsParseError ==
    req.kind \in {"malformed", "nonobject"} =>
        /\ Len(log) = 1
        /\ IsError(log[1]) /\ log[1].id = None /\ log[1].error.code = -32700
        /\ exception = None
        /\ ServiceUntouched
        /\ pc = "running"

(* C14: a request whose method is not registered is answered by exactly    *)
(* one error frame with code -32601 and the request's id (null when it has *)
(* none); no handler runs, the model, the caches and the files stay as     *)
(* they were, the loop keeps running, and a ping that is the next line is  *)
(* answered with status ok.                                                *)
C14_UnknownMethodIsRejected ==
    /\ (req.kind = "request" /\ req.method \notin METHODS) =>
          /\ Len(log) = 1
          /\ IsError(log[1]) /\ log[1].id = req.id /\ log[1].error.code = -32601
          /\ exception = None
          /\ ServiceUntouched
          /\ pc = "running"
    /\ (IsRequest("ping") /\ before.prev.code = -32601) => PingAnswered /\ pc = "running"

(* an unknown method without an id was rejected, and the ping after it was *)
(* answered                                                                *)
C14_Witness ==
    /\ IsRequest("ping")
    /\ before.prev.kind = "request" /\ before.prev.method = "frobnicate"
    /\ before.prev.code = -32601
    /\ PingAnswered

-----------------------------------------------------------------------------
(* Model residency: loads that succeed and fail in every way, unloads, and *)
(* clone generations that fill the context cache in between                *)

OneSegment == [chunks |-> <<SegmentAudio(1)>>, raises |-> FALSE]

NextResidency ==
    \/ Start
    \/ LoadModel(MaxResidency, {"r1"}, LoadById({"pro_custom", "pro_clone"}),
                 {ImportFails, LoadRaises, EnableRaises, Loads(TRUE)})
    \/ UnloadModel(MaxResidency, {"r1"})
    \/ Generate(MaxResidency, {"r1"}, CloneParams({RefWav}, {" hi "}), {"ok"}, {OneSegment})

SpecResidency == Init /\ [][NextResidency]_vars

(* the last line was a load_model that passed validation, for path t *)
LoadedFor(t) == IsRequest("load_model") /\ LoadTarget(req.params).ok
                /\ LoadTarget(req.params).path = t

(* a model was resident, recorded under path t, when the last line was read *)
WasResidentAt(t) == before.model # NoModel /\ before.path = t

(* C1: after any unload_model, and after any load_model whose target path *)
(* differs from the path recorded for the resident model (or that finds no *)
(* model resident), the conditioning cache is empty, whether the load then *)
(* succeeds or fails.                                                      *)
C1_CacheEmptyAfterModelChange ==
    /\ IsRequest("unload_model") => _clone_context_cache = <<>>
    /\ \A t \in {PathA, PathB} :
          LoadedFor(t) /\ ~WasResidentAt(t) => _clone_context_cache = <<>>

(* a model with prepared contexts was replaced by a load for another path *)
C1_Witness ==
    /\ LoadedFor(PathB) /\ WasResidentAt(PathA)
    /\ before.cache # <<>>
    /\ _current_model # NoModel /\ _current_model_path = PathB
    /\ _clone_context_cache = <<>>

(* C12 as stated: when a load_model for a path other than the resident     *)
(* model's fails while the new model is loaded, the resident handle, its   *)
(* recorded path and the conditioning cache are as before the request.     *)
C12_FailedLoadLeavesServiceAsBefore ==
    \A t \in {PathA, PathB} :
        ( /\ LoadedFor(t)
          /\ before.model # NoModel /\ before.path # t
          /\ exception # None )
        => /\ _current_model = before.model
           /\ _current_model_path = before.path
           /\ _clone_context_cache = before.cache

(* C21: unload_model is answered with success whether or not a model is   *)
(* resident, and leaves no model, no recorded path and an empty            *)
(* conditioning cache; an unload right after an unload is answered with    *)
(* success again and changes nothing.                                      *)
C21_UnloadIsIdempotent ==
    IsRequest("unload_model") =>
        /\ exception = None
        /\ log[Len(log)] = [jsonrpc |-> "2.0", id |-> req.id, result |-> [success |-> TRUE]]
        /\ _current_model = NoModel
        /\ _current_model_path = NoPath
        /\ _clone_context_cache = <<>>
        /\ before.prev.method = "unload_model" => ServiceUntouched

(* a model was loaded, unloaded, and unloaded once more *)
C21_Witness ==
    /\ IsRequest("unload_model")
    /\ before.prev.method = "unload_model" /\ before.prev.code = 0
    /\ loads >= 1
    /\ IsSuccess(log[Len(log)])
    /\ ServiceUntouched

(* C2: a load_model for the path recorded for the resident model answers  *)
(* success with cached = true and does nothing else: the engine is not     *)
(* called, no progress is notified, and the handle, the recorded path and  *)
(* the cache (entries and order) are as before.                            *)
C2_SamePathLoadIsNoOp ==
    \A t \in {PathA, PathB} :
        LoadedFor(t) /\ WasResidentAt(t) =>
            /\ log = <<send_response(req.id,
                          [success |-> TRUE, model_path |-> t, cached |-> TRUE])>>
            /\ _current_model = before.model
            /\ _current_model_path = before.path
            /\ _clone_context_cache = before.cache

(* the resident model had prepared contexts when it was asked for again *)
C2_Witness ==
    /\ LoadedFor(PathA) /\ WasResidentAt(PathA)
    /\ before.cache # <<>>
    /\ _clone_context_cache # <<>>

(* C3: one handle at a time, and the cache serves it alone: a load drops   *)
(* the resident handle before the engine creates the next one; every       *)
(* cached context was prepared by the resident handle; and the context a   *)
(* generation runs with was prepared by the resident handle.               *)
C3_OneHandleOwnContexts ==
    /\ \A i \in 1..Len(_clone_context_cache) :
          /\ _current_model # NoModel
          /\ _clone_context_cache[i].value.by = _current_model.inst
    /\ \A i \in 1..Len(log) :
          /\ IsCall(log[i], "generate_with_prepared_icl")
                => _current_model # NoModel /\ log[i].arg.by = _current_model.inst
          /\ IsCall(log[i], "load_model") /\ before.model # NoModel
                => \E j \in 1..(i - 1) : log[j] = Call("gc.collect", before.model.inst)
    /\ _current_model.inst \in {0, loads}

(* the handle that replaced the first one generated with a context it    *)
(* prepared, and that context is now cached                                *)
C3_Witness ==
    /\ _current_model.inst = 2
    /\ before.model.inst = 2
    /\ _clone_context_cache # <<>>
    /\ \E i \in 1..Len(log) : IsCall(log[i], "generate_with_prepared_icl")

(* the last line was a load_model answered with cached = true *)
AnsweredCached ==
    /\ IsRequest("load_model") /\ exception = None
    /\ "cached" \in DOMAIN log[Len(log)].result

(* C26 as stated: the recorded path is the path the resident handle was   *)
(* loaded from, and a load_model answered with cached = true for a path    *)
(* leaves resident the handle that was loaded from that path.              *)
C26_RecordedPathIsPathOfResidentModel ==
    /\ _current_model # NoModel => _current_model.loaded_from = _current_model_path
    /\ \A t \in {PathA, PathB} :
          LoadedFor(t) /\ AnsweredCached => _current_model.loaded_from = t

(* C27: between requests, a non-empty conditioning cache means a model is  *)
(* resident and the model-path component of every cached key is the        *)
(* recorded path; with no model resident the cache is empty.               *)
C27_CachedKeysNameRecordedPath ==
    /\ _clone_context_cache # <<>> =>
          /\ _current_model # NoModel
          /\ \A i \in 1..Len(_clone_context_cache) :
                _clone_context_cache[i].key[1] = _current_model_path
    /\ _current_model = NoModel => _clone_context_cache = <<>>

(* a clone filled the cache of a model that replaced another one whose     *)
(* path is still the recorded one                                          *)
C27_Witness ==
    /\ IsRequest("generate") /\ exception = None
    /\ before.cache = <<>> /\ _clone_context_cache # <<>>
    /\ _current_model.inst = 2
    /\ _current_model.loaded_from # _current_model_path
    /\ _clone_context_cache[1].key[1] = _current_model_path

-----------------------------------------------------------------------------
(* Recency: a client loads a model, clones with as many distinct           *)
(* (reference, transcript) pairs as the cache holds, and then goes on with *)
(* those pairs and one more, reloading and unloading in between            *)

Clips == << <<"refs", "ref.wav">>, <<"refs", "voice.wav">>, <<"refs", "a.wav">> >>
Transcripts == <<"hi", "yo", "ok">>

(* the k-th pair, k in 1..9 *)
PairParams(k) ==
    [GenDefaults EXCEPT !.ref_audio = Clips[((k - 1) \div 3) + 1],
                        !.ref_text = Transcripts[((k - 1) % 3) + 1],
                        !.benchmark = TRUE]

Pairs == 1..(Len(Clips) * Len(Transcripts))
FillLines == 1 + CLONE_CONTEXT_CACHE_CAPACITY
LRULines == FillLines + MaxTouches

LRULoad ==
    /\ nreq = 0
    /\ LoadModel(FillLines, {"r1"}, LoadById({"pro_custom"}), {Loads(TRUE)})

LRUFill ==
    \E k \in 1..CLONE_CONTEXT_CACHE_CAPACITY :
        /\ nreq = k
        /\ Generate(FillLines, {"r1"}, {PairParams(k)}, {"ok"}, {OneSegment})

LRUTouch ==
    /\ nreq >= FillLines
    /\ Generate(LRULines, {"r1"}, {PairParams(k) : k \in Pairs}, {"ok", "raises"},
                {OneSegment})

LRUReload ==
    /\ nreq >= FillLines
    /\ LoadModel(LRULines, {"r1"}, LoadById({"pro_custom", "pro_clone"}), {Loads(TRUE)})

LRUUnload ==
    /\ nreq >= FillLines
    /\ UnloadModel(LRULines, {"r1"})

NextLRU == Start \/ LRULoad \/ LRUFill \/ LRUTouch \/ LRUReload \/ LRUUnload

SpecLRU == Init /\ [][NextLRU]_vars

(* the last line was a clone generation that got as far as the context     *)
(* cache, with the key it looked up                                        *)
LookedUp(k) ==
    /\ IsRequest("generate")
    /\ before.model # NoModel /\ before.model.can_prepare
    /\ req.params.ref_audio # NoPath
    /\ k = <<before.path, req.params.ref_audio,
             RefOnDisk(req.params.ref_audio).st_size,
             RefOnDisk(req.params.ref_audio).st_mtime_ns, Strip(req.params.ref_text)>>

(* the key of the k-th pair under the model recorded at `path` *)
KeyUnder(path, k) ==
    <<path, PairParams(k).ref_audio, RefOnDisk(PairParams(k).ref_audio).st_size,
      RefOnDisk(PairParams(k).ref_audio).st_mtime_ns, PairParams(k).ref_text>>

PairKeyOf(k) == KeyUnder(PathA, k)

PairKeys == {KeyUnder(path, k) : path \in {PathA, PathB}, k \in Pairs}

(* the position of a key in a cache, oldest first *)
Position(cache, k) == CHOOSE i \in 1..Len(cache) : cache[i].key = k

(* C4: between requests the conditioning cache never holds more than      *)
(* CLONE_CONTEXT_CACHE_CAPACITY entries, and no key twice.                 *)
C4_CacheWithinCapacity ==
    /\ Len(_clone_context_cache) <= CLONE_CONTEXT_CACHE_CAPACITY
    /\ Cardinality(Keys(_clone_context_cache)) = Len(_clone_context_cache)

(* a new key went into a cache that was full *)
C4_Witness ==
    /\ Len(before.cache) = CLONE_CONTEXT_CACHE_CAPACITY
    /\ Len(_clone_context_cache) = CLONE_CONTEXT_CACHE_CAPACITY
    /\ Keys(_clone_context_cache) # Keys(before.cache)

(* C5: when a new key is inserted into a cache that holds exactly the     *)
(* capacity, exactly one entry goes, the one whose last use (insertion or  *)
(* hit) is the oldest; the other entries keep their values and their order *)
(* of recency, and the new key is the most recently used.                  *)
C5_EvictsLeastRecentlyUsed ==
    \A k \in PairKeys :
        ( /\ LookedUp(k)
          /\ world.prepare = "ok"
          /\ k \notin Keys(before.cache)
          /\ Len(before.cache) = CLONE_CONTEXT_CACHE_CAPACITY )
        => LET old == before.cache
               new == _clone_context_cache
               gone == Keys(old) \ Keys(new)
           IN
           /\ Len(new) = CLONE_CONTEXT_CACHE_CAPACITY
           /\ Keys(new) \ Keys(old) = {k}
           /\ Cardinality(gone) = 1
           /\ \A v \in gone : \A o \in Keys(old) :
                  before.last_use[v] <= before.last_use[o]
           /\ \A o \in Keys(old) \ gone :
                  /\ new[Position(new, o)] = old[Position(old, o)]
                  /\ last_use[o] = before.last_use[o]
                  /\ last_use[o] < last_use[k]
                  /\ \A p \in Keys(old) \ gone :
                        Position(old, o) < Position(old, p)
                            <=> Position(new, o) < Position(new, p)
           /\ new[Len(new)].key = k
           /\ new[Len(new)].value = prepare_icl_context(cache_dir, before.model, k[2], k[5])

(* the entry that went was not the first one inserted: an earlier hit had  *)
(* made the first one more recent                                          *)
C5_Witness ==
    \E k \in PairKeys :
        /\ LookedUp(k)
        /\ k \notin Keys(before.cache)
        /\ Len(before.cache) = CLONE_CONTEXT_CACHE_CAPACITY
        /\ Len(_clone_context_cache) = CLONE_CONTEXT_CACHE_CAPACITY
        /\ _clone_context_cache[Len(_clone_context_cache)].key = k
        /\ before.cache[1].key # PairKeyOf(1)
        /\ PairKeyOf(1) \in Keys(_clone_context_cache)

(* C6: a hit returns the stored context with the hit flag true, makes its  *)
(* key the most recently used, does not call the engine's prepare, and     *)
(* changes neither the keys, the values, the size nor the order of the     *)
(* other keys.                                                             *)
C6_HitOnlyMovesItsKey ==
    \A k \in PairKeys :
        LookedUp(k) /\ k \in Keys(before.cache)
        => LET old == before.cache
               new == _clone_context_cache
               stored == old[Position(old, k)].value
           IN
           /\ \E i \in 1..Len(log) :
                  log[i] = Call("generate_with_prepared_icl", stored)
           /\ \A i \in 1..Len(log) : ~IsCall(log[i], "prepare_icl_context")
           /\ IsSuccess(log[Len(log)])
                 => log[Len(log)].result.benchmark.clone_cache_hit = "true"
           /\ Keys(new) = Keys(old)
           /\ Len(new) = Len(old)
           /\ new[Len(new)].key = k
           /\ \A o \in Keys(old) :
                  /\ new[Position(new, o)].value = old[Position(old, o)].value
                  /\ \A p \in Keys(old) \ {k} :
                        o # k => ( Position(old, o) < Position(old, p)
                                    <=> Position(new, o) < Position(new, p) )
           /\ \A o \in Keys(old) \ {k} : last_use[o] = before.last_use[o]
           /\ \A o \in Keys(old) \ {k} : last_use[o] < last_use[k]

(* a hit on the oldest entry of a full cache *)
C6_Witness ==
    /\ LookedUp(PairKeyOf(1))
    /\ Len(before.cache) = CLONE_CONTEXT_CACHE_CAPACITY
    /\ before.cache[1].key = PairKeyOf(1)
    /\ _clone_context_cache[Len(_clone_context_cache)].key = PairKeyOf(1)
    /\ IsSuccess(log[Len(log)])

-----------------------------------------------------------------------------
(* Generation: with a model loaded, clone, streaming and plain requests    *)
(* whose engine yields up to MaxChunks segments and may raise after them   *)

MissingClip == <<"refs", "gone.wav">>

GenLoad ==
    /\ nreq = 0
    /\ LoadModel(MaxGenerate, {"r1"}, LoadById({"pro_custom"}), {Loads(TRUE), Loads(FALSE)})

GenStream ==
    /\ nreq >= 1
    /\ Generate(MaxGenerate, {"r1"}, StreamParams({ExplicitOutput}), {"ok"}, EngineRuns)

GenPlain ==
    /\ nreq >= 1
    /\ Generate(MaxGenerate, {"r1"}, PlainParams({NoPath}), {"ok"}, EngineRuns)

GenClone ==
    /\ nreq >= 1
    /\ Generate(MaxGenerate, {"r1"}, CloneParams({RefWav}, {" hi "}), {"ok", "raises"},
                EngineRuns)

(* a clip that has to be converted, or that is not there *)
GenCloneOther ==
    /\ nreq >= 1
    /\ Generate(MaxGenerate, {"r1"}, CloneParams({MissingClip, <<"refs", "clip.mp3">>}, {" hi "}),
                {"ok", "raises"}, {OneSegment})

NextGenerate == Start \/ GenLoad \/ GenStream \/ GenPlain \/ GenClone \/ GenCloneOther

SpecGenerate == Init /\ [][NextGenerate]_vars

(* the last line was a generate that got past the checks of lines 630-637  *)
Attempted ==
    /\ IsRequest("generate")
    /\ before.model # NoModel
    /\ Strip(req.params.text) # ""

(* ... and took the streaming branch, line 743 *)
Streamed ==
    Attempted /\ req.params.ref_audio = NoPath /\ req.params.stream /\ req.id # None

ChunkNotes == SelectSeq(log, IsChunkNote)

(* C7: a streaming generate whose engine yields N >= 1 chunks emits       *)
(* exactly N generation_chunk notifications with the request's id and with *)
(* chunk_index 0, 1, ..., N-1 in that order, all of them before the one    *)
(* response, which is a success when the engine did not raise.             *)
C7_ChunkNotificationsInOrder ==
    (Streamed /\ Len(world.run.chunks) >= 1) =>
        /\ Len(ChunkNotes) = Len(world.run.chunks)
        /\ \A i \in 1..Len(ChunkNotes) :
              /\ ChunkNotes[i].params.chunk_index = i - 1
              /\ ChunkNotes[i].params.request_id = req.id
        /\ Len(Responses) = 1
        /\ log[Len(log)] = Responses[1]
        /\ IsSuccess(Responses[1]) <=> ~world.run.raises

(* two chunks were notified and the request succeeded *)
C7_Witness ==
    /\ Streamed
    /\ Len(world.run.chunks) = 2
    /\ Len(ChunkNotes) = 2
    /\ IsSuccess(log[Len(log)])

(* the final path of the last generate, as the contract resolves it *)
FinalPath ==
    IF req.params.output_path # NoPath THEN req.params.output_path
    ELSE <<OUTPUTS_DIR \o << IF req.params.ref_audio # NoPath THEN "Clones"
                             ELSE IF req.params.voice # None THEN "CustomVoice"
                             ELSE "VoiceDesign" >>,
           <<world.timestamp, CleanSnippet(Strip(req.params.text))>>>>

(* the event writes or replaces the file at path p *)
WritesAt(e, p) ==
    \/ IsWrite(e) /\ e.path = p
    \/ "op" \in DOMAIN e /\ e.op = "replace" /\ e.dst = p

RECURSIVE InOrder(_, _)
InOrder(pieces, n) == IF n = 0 THEN <<>> ELSE InOrder(pieces, n - 1) \o pieces[n]

RECURSIVE TotalLength(_, _)
TotalLength(pieces, n) == IF n = 0 THEN 0 ELSE TotalLength(pieces, n - 1) + Len(pieces[n])

(* the audio of the notified chunks, read back from their files *)
NotifiedAudio == [i \in 1..Len(ChunkNotes) |-> out_files[ChunkNotes[i].params.chunk_path]]

(* C9: in a streaming generation that succeeds, the audio at the final    *)
(* path is the concatenation, in index order, of exactly the chunks that   *)
(* were notified (the chunk itself when there is one), so its length is    *)
(* the sum of their lengths.                                               *)
C9_FinalIsConcatenation ==
    (Streamed /\ IsSuccess(log[Len(log)])) =>
        /\ ChunkNotes # <<>>
        /\ out_files[FinalPath] = InOrder(NotifiedAudio, Len(NotifiedAudio))
        /\ Len(out_files[FinalPath]) = TotalLength(NotifiedAudio, Len(NotifiedAudio))
        /\ Len(ChunkNotes) = 1 => out_files[FinalPath] = NotifiedAudio[1]
        /\ log[Len(log)].result.duration_seconds = Len(out_files[FinalPath])

(* two chunks of different lengths were assembled *)
C9_Witness ==
    /\ Streamed /\ IsSuccess(log[Len(log)])
    /\ Len(ChunkNotes) = 2
    /\ Len(NotifiedAudio[1]) # Len(NotifiedAudio[2])
    /\ Len(out_files[FinalPath]) = Len(NotifiedAudio[1]) + Len(NotifiedAudio[2])

(* where the events of the last line that are chunk notifications, and     *)
(* those that write the file at p, stand in the line's trace               *)
NotePositions == {i \in 1..Len(log) : IsChunkNote(log[i])}

WritePositions(p) == {i \in 1..Len(log) : WritesAt(log[i], p)}

ChunkPathOf(index) == <<FinalPath[1], FinalPath[2] \o <<ChunkSuffix(index)>>>>

(* C34: in a streaming generation the file of each chunk is written at     *)
(* {stem}__chunk_{index:03d} right before the chunk is notified; the chunk *)
(* paths of the request differ from one another and from the final path;   *)
(* and the final file is written only after the last chunk was notified.   *)
C34_ChunkFilesBeforeNotifications ==
    Streamed =>
        /\ \A i \in NotePositions :
              /\ log[i].params.chunk_path = ChunkPathOf(log[i].params.chunk_index)
              /\ i > 1
              /\ log[i - 1] = FileWrite(log[i].params.chunk_path,
                                        world.run.chunks[log[i].params.chunk_index + 1])
              /\ log[i].params.chunk_path # FinalPath
              /\ \A j \in NotePositions :
                    j # i => log[j].params.chunk_path # log[i].params.chunk_path
        /\ \A w \in WritePositions(FinalPath) : \A i \in NotePositions : i < w
        /\ WritePositions(FinalPath) # {} => NotePositions # {}

(* two chunks were written and notified in turn, and then the final file   *)
C34_Witness ==
    /\ Streamed /\ IsSuccess(log[Len(log)])
    /\ Cardinality(NotePositions) = 2
    /\ Cardinality(WritePositions(FinalPath)) = 1
    /\ Cardinality({log[i].params.chunk_path : i \in NotePositions} \cup {FinalPath}) = 3
    /\ \A i \in NotePositions : log[i].params.chunk_path \in DOMAIN out_files

(* C20: a streaming generate whose engine ends without yielding a segment *)
(* is answered with the error "Generation produced no audio file"; it      *)
(* notifies no generation_chunk and no "Done" progress, and nothing is     *)
(* written at its final path, which is left as it was.                     *)
C20_EmptyStreamIsAnError ==
    (Streamed /\ world.run.chunks = <<>> /\ ~world.run.raises) =>
        /\ log[Len(log)] = [jsonrpc |-> "2.0", id |-> req.id,
                             error |-> [code |-> -32000,
                                        message |-> "Generation produced no audio file"]]
        /\ ChunkNotes = <<>>
        /\ \A i \in 1..Len(log) : IsProgress(log[i]) => log[i].params.message # "Done"
        /\ \A i \in 1..Len(log) : ~WritesAt(log[i], FinalPath)
        /\ FinalPath \in DOMAIN out_files <=> FinalPath \in DOMAIN before.files
        /\ FinalPath \in DOMAIN out_files => out_files[FinalPath] = before.files[FinalPath]

(* an empty stream to a final path that an earlier generation had written: *)
(* the earlier file is still there                                         *)
C20_Witness ==
    /\ Streamed /\ world.run.chunks = <<>> /\ ~world.run.raises
    /\ IsError(log[Len(log)])
    /\ FinalPath \in DOMAIN before.files
    /\ out_files[FinalPath] = before.files[FinalPath]

-----------------------------------------------------------------------------
(* Modes: after a load, generate requests with every combination of voice, *)
(* instruct, reference clip, stream, explicit output path, benchmark and   *)
(* request id                                                              *)

MaxModes == 2               \* input lines per run of SpecModes

AllModes ==
    {[GenDefaults EXCEPT !.voice = v, !.instruct = i, !.ref_audio = r, !.ref_text = t,
                         !.stream = st, !.output_path = o, !.benchmark = b] :
        v \in {None, "ryan"}, i \in {None, "calm"}, r \in {NoPath, RefWav}, t \in {" hi "},
        st \in BOOLEAN, o \in {NoPath, ExplicitOutput}, b \in BOOLEAN}

ModeLoad ==
    /\ nreq = 0
    /\ LoadModel(MaxModes, {"r1"}, LoadById({"pro_custom"}), {Loads(TRUE), Loads(FALSE)})

ModeGenerate ==
    /\ nreq >= 1
    /\ Generate(MaxModes, {"r1", None}, AllModes, {"ok"}, {OneSegment})

NextModes == Start \/ ModeLoad \/ ModeGenerate

SpecModes == Init /\ [][NextModes]_vars

(* the output subfolder the contract gives the last generate *)
ModeFolder ==
    IF req.params.ref_audio # NoPath THEN "Clones"
    ELSE IF req.params.voice # None THEN "CustomVoice"
    ELSE "VoiceDesign"

(* C22: the final path of a generation, streaming or not, is the explicit  *)
(* output_path when one is given, and otherwise a generated name under     *)
(* outputs/Clones when a reference clip is supplied, else under            *)
(* outputs/CustomVoice when a voice is supplied, else under                *)
(* outputs/VoiceDesign; the audio is at that path.                         *)
C22_FinalPathRule ==
    (Attempted /\ IsSuccess(log[Len(log)])) =>
        LET audio_path == log[Len(log)].result.audio_path IN
        /\ req.params.output_path # NoPath => audio_path = req.params.output_path
        /\ req.params.output_path = NoPath => audio_path[1] = <<"outputs", ModeFolder>>
        /\ audio_path \in DOMAIN out_files
        /\ \E i \in 1..Len(log) : WritesAt(log[i], audio_path)

(* a streamed request with an instruction only lands under VoiceDesign *)
C22_Witness ==
    /\ Streamed /\ IsSuccess(log[Len(log)])
    /\ ChunkNotes # <<>>
    /\ req.params.voice = None /\ req.params.instruct # None
    /\ req.params.output_path = NoPath
    /\ log[Len(log)].result.audio_path[1] = <<"outputs", "VoiceDesign">>

(* C23: the same generate request processed from the same state with the  *)
(* benchmark flag set and not set takes the same branch (the same engine   *)
(* calls, notifications and file operations in the same order), leaves the *)
(* same model, caches and files, fails with the same error or returns the  *)
(* same audio_path and duration; only the benchmark field of the result    *)
(* is present in one and absent in the other.                              *)
C23_BenchmarkFlagDoesNotInterfere ==
    [][ (nreq' = nreq + 1 /\ req'.kind = "request" /\ req'.method = "generate") =>
        LET twin == handle_generate(
                        [req'.params EXCEPT !.benchmark = ~req'.params.benchmark],
                        req'.id, world')
            answer == log'[Len(log')]
            with == IF req'.params.benchmark THEN answer.result ELSE twin.result
            without == IF req'.params.benchmark THEN twin.result ELSE answer.result
        IN
        /\ twin.events = SubSeq(log', 1, Len(log') - 1)
        /\ twin.cache = _clone_context_cache'
        /\ twin.dir = cache_dir'
        /\ ApplyFs(out_files, twin.events) = out_files'
        /\ _current_model' = _current_model /\ _current_model_path' = _current_model_path
        /\ twin.raised = exception'
        /\ twin.raised = None =>
              /\ IsSuccess(answer)
              /\ DOMAIN with = {"audio_path", "duration_seconds", "benchmark"}
              /\ DOMAIN without = {"audio_path", "duration_seconds"}
              /\ with.audio_path = without.audio_path
              /\ with.duration_seconds = without.duration_seconds
      ]_vars

(* a clone request with the benchmark flag prepared and cached a context   *)
(* and was answered with benchmark data                                    *)
C23_Witness ==
    /\ Attempted /\ req.params.benchmark
    /\ IsSuccess(log[Len(log)])
    /\ "benchmark" \in DOMAIN log[Len(log)].result
    /\ before.cache = <<>> /\ _clone_context_cache # <<>>

-----------------------------------------------------------------------------
(* Voices: enrollments with names that need sanitizing, with and without a *)
(* transcript, from clips that are there, that need conversion and that    *)
(* are missing; and listings                                               *)

MaxVoices == 3              \* input lines per run of SpecVoices

Enrollments ==
    {[name |-> n, audio_path |-> a, transcript |-> t] :
        n \in {"Test Voice!", " a b "}, a \in {RefWav, MissingClip},
        t \in {"hello there", None}}
    \cup {[name |-> "!?", audio_path |-> RefWav, transcript |-> "hello there"],
          [name |-> "Test Voice!", audio_path |-> <<"refs", "clip.mp3">>,
           transcript |-> " hi "]}

VoiceEnroll == EnrollVoice(MaxVoices, {"r1"}, Enrollments, {"ok"})

VoiceList == ListVoices(MaxVoices, {"r1"})

NextVoices == Start \/ VoiceEnroll \/ VoiceList

SpecVoices == Init /\ [][NextVoices]_vars

(* the entries of the last listing that carry the name `name` *)
Listed(name) == SelectSeq(log[Len(log)].result, LAMBDA v : v.name = name)

(* C24: an enroll_voice with a name, an audio file that is there and a     *)
(* transcript that is not empty succeeds and leaves <sanitized name>.wav   *)
(* and <sanitized name>.txt in the voices directory, the second holding    *)
(* exactly the transcript ("Test Voice!" is stored as Test_Voice); a       *)
(* list_voices reports each voice of the directory exactly once, with      *)
(* has_transcript = true exactly when its .txt is there.                   *)
C24_EnrollStoresVoiceAndTranscript ==
    /\ ( /\ IsRequest("enroll_voice")
          /\ req.params.name \in {"Test Voice!", " a b "}
          /\ req.params.audio_path \in {RefWav, <<"refs", "clip.mp3">>}
          /\ req.params.transcript # None /\ req.params.transcript # "" )
        => /\ IsSuccess(log[Len(log)])
           /\ req.params.name = "Test Voice!" => log[Len(log)].result.name = "Test_Voice"
           /\ req.params.name = " a b " => log[Len(log)].result.name = "a_b"
           /\ <<log[Len(log)].result.name, ".wav">> \in DOMAIN voice_files
           /\ <<log[Len(log)].result.name, ".txt">> \in DOMAIN voice_files
           /\ voice_files[<<log[Len(log)].result.name, ".txt">>] = req.params.transcript
    /\ IsRequest("list_voices")
        => /\ IsSuccess(log[Len(log)])
           /\ \A f \in DOMAIN voice_files :
                 f[2] = ".wav" =>
                    /\ Len(Listed(f[1])) = 1
                    /\ Listed(f[1])[1].has_transcript = (<<f[1], ".txt">> \in DOMAIN voice_files)
           /\ \A i \in 1..Len(log[Len(log)].result) :
                 <<log[Len(log)].result[i].name, ".wav">> \in DOMAIN voice_files

(* a voice without a transcript was enrolled, then "Test Voice!" with one, *)
(* and the listing after it reports both, Test_Voice once and with its     *)
(* transcript                                                              *)
C24_Witness ==
    /\ IsRequest("list_voices")
    /\ before.prev.method = "enroll_voice" /\ before.prev.code = 0
    /\ <<"Test_Voice", ".txt">> \in DOMAIN voice_files
    /\ voice_files[<<"Test_Voice", ".txt">>] = "hello there"
    /\ Len(log[Len(log)].result) = 2
    /\ Len(Listed("Test_Voice")) = 1
    /\ Listed("Test_Voice")[1].has_transcript
    /\ ~Listed("a_b")[1].has_transcript

-----------------------------------------------------------------------------
(* The persistent reference cache: the service starts on the directory an  *)
(* earlier run left (empty, below, at and over the entry limit, with       *)
(* entries about to pass or past the maximum age), loads a model, and then *)
(* serves init and clone requests for a clip that needs conversion and for *)
(* one that does not, while the user edits the first.                      *)

MaxNormalize == 3           \* input lines per run of SpecNormalize
MaxEdits == 1               \* edits of the clip per run of SpecNormalize

ClipMp3 == <<"refs", "clip.mp3">>

(* n files converted by earlier runs, the i-th one i ticks before this run *)
(* started, and the files in `stale`, given by the age they have when the  *)
(* run starts less the maximum age                                          *)
LeftBehind(n, stale) ==
    [p \in {<<"cache", "old", i>> : i \in 1..n} \cup {<<"cache", "stale", a>> : a \in stale} |->
        IF p[2] = "old"
        THEN [st_mtime |-> 1 - p[3], st_size |-> 48, content |-> <<"old", p[3]>>]
        ELSE [st_mtime |-> 1 - NORMALIZED_CLONE_REF_MAX_AGE_SECONDS - p[3], st_size |-> 48,
              content |-> <<"stale", p[3]>>]]

CacheDirs ==
    {<<>>,
     LeftBehind(NORMALIZED_CLONE_REF_CACHE_LIMIT - 1, {-1}),
     LeftBehind(NORMALIZED_CLONE_REF_CACHE_LIMIT, {}),
     LeftBehind(NORMALIZED_CLONE_REF_CACHE_LIMIT + 1, {0, 5})}

InitNormalize == InitWith(CacheDirs)

NormLoad ==
    /\ nreq = 0
    /\ LoadModel(MaxNormalize, {"r1"}, LoadById({"pro_custom"}), {Loads(TRUE)})

NormInit ==
    /\ nreq >= 1
    /\ InitPaths(MaxNormalize, {"r1"})

NormClone ==
    /\ nreq >= 1
    /\ Generate(MaxNormalize, {"r1"}, CloneParams({ClipMp3, RefWav}, {" hi "}),
                {"ok"}, {OneSegment})

NormEdit ==
    /\ nreq >= 1
    /\ EditClip(MaxEdits, {"touch", "resize"})

NextNormalize ==
    \/ Start
    \/ NormLoad
    \/ NormInit
    \/ NormClone
    \/ NormEdit

SpecNormalize == InitNormalize /\ [][NextNormalize]_vars

(* the last line was a generate that got as far as normalizing the         *)
(* reference r                                                             *)
Normalizing(r) ==
    /\ IsRequest("generate") /\ req.params.ref_audio = r
    /\ before.model # NoModel
    /\ Strip(req.params.text) # ""

(* what the normalization of the last line returned, NoPath if it raised *)
NormalizedTo ==
    IF \E i \in 1..Len(log) : IsReturn(log[i], "normalize")
    THEN log[CHOOSE i \in 1..Len(log) : IsReturn(log[i], "normalize")].value
    ELSE NoPath

ConversionRuns == Len(SelectSeq(log, LAMBDA e : IsCall(e, "ffmpeg")))

(* the last line ran a pruning pass: an init, or a generate whose          *)
(* reference was converted                                                 *)
Converted ==
    /\ IsRequest("generate")
    /\ \E i \in 1..Len(log) : IsCall(log[i], "ffmpeg")
    /\ \E i \in 1..Len(log) : IsReturn(log[i], "normalize")

PrunePassRan == IsRequest("init") \/ Converted

(* the age of a cache file at the time the last line was processed *)
AgeThen(dir, p) == (now - 1) - dir[p].st_mtime

NormalizedBefore(r) ==
    /\ before.prev.ref_audio = r
    /\ before.prev.clean # NoPath
    /\ before.prev.clip = before.clip

(* C15: when the same unchanged source that is not a WAV is normalized by  *)
(* two requests in a row, both get the same cache file path and the second *)
(* does not run the conversion utility, also when the first converted the  *)
(* source and pruned the directory afterwards.                             *)
C15_SecondNormalizeIsServedFromCache ==
    (Normalizing(ClipMp3) /\ NormalizedBefore(ClipMp3)) =>
        /\ NormalizedTo = before.prev.clean
        /\ ConversionRuns = 0

(* the first request converted the clip into a directory that was at the   *)
(* limit, so that the pruning pass removed a file; the second was served   *)
(* the same cache file                                                     *)
C15_Witness ==
    /\ Normalizing(ClipMp3) /\ NormalizedBefore(ClipMp3)
    /\ before.prev.ffmpeg
    /\ Cardinality(DOMAIN before.dir) = NORMALIZED_CLONE_REF_CACHE_LIMIT
    /\ <<"cache", "old", NORMALIZED_CLONE_REF_CACHE_LIMIT>> \notin DOMAIN before.dir
    /\ NormalizedTo = before.prev.clean
    /\ ConversionRuns = 0

(* the line before the last tried to convert the same reference, which has *)
(* not been edited since, and the conversion failed                        *)
ConversionFailedBefore(r) ==
    /\ before.prev.ref_audio = r
    /\ before.prev.ffmpeg /\ before.prev.clean = NoPath
    /\ before.prev.clip = before.clip

(* the output path the conversion utility was given by the last line *)
ConversionTarget == SelectSeq(log, LAMBDA e : IsCall(e, "ffmpeg"))[1].arg[2]

(* C17 as stated: when the conversion utility is missing or exits with an  *)
(* error, the request fails with the conversion error and no file is at    *)
(* the source's cache path afterwards; the next normalization of the same  *)
(* source is not a cache hit but runs the conversion again.                *)
C17_FailedConversionLeavesNoFile ==
    /\ ( /\ Normalizing(ClipMp3)
          /\ ConversionRuns = 1
          /\ world.conv \in {"fails", "partial"} )
        => /\ exception = "Could not convert audio. Is ffmpeg installed?"
           /\ ConversionTarget \notin DOMAIN cache_dir
    /\ (Normalizing(ClipMp3) /\ ConversionFailedBefore(ClipMp3)) => ConversionRuns = 1

(* the last two lines were generate requests with the same reference r,    *)
(* not edited in between, and the same transcript that is not empty, the   *)
(* resident model supporting prepared conditioning; the first of them      *)
(* reported clone_cache_hit = false                                        *)
RepeatedClone(r) ==
    /\ IsRequest("generate") /\ req.params.ref_audio = r
    /\ req.params.ref_text # None /\ Strip(req.params.ref_text) # ""
    /\ before.model # NoModel /\ before.model.can_prepare
    /\ before.prev.method = "generate"
    /\ before.prev.ref_audio = r /\ before.prev.ref_text = req.params.ref_text
    /\ before.prev.clip = before.clip
    /\ before.prev.hit = "false"

(* C18 as stated: of two consecutive generate requests with the same       *)
(* unchanged reference and the same non-empty transcript, under one loaded *)
(* model that supports prepared conditioning, the first reports            *)
(* clone_cache_hit = false and the second clone_cache_hit = true.          *)
C18_SecondCloneIsCacheHit ==
    \A r \in {RefWav, ClipMp3} :
        RepeatedClone(r) =>
            /\ IsSuccess(log[Len(log)])
            /\ log[Len(log)].result.benchmark.clone_cache_hit = "true"

(* C19: the cache file path of a source is a function of its resolved      *)
(* path, size, modification time and base name.  Two requests in a row for *)
(* the same source get the same cache file when size and time are          *)
(* unchanged and different cache files when either was changed in between; *)
(* the file a normalization returns always holds the conversion of the     *)
(* source as it was when the request was processed, never that of an      *)
(* earlier version.                                                        *)
C19_CachePathFollowsSourceVersion ==
    (Normalizing(ClipMp3) /\ NormalizedTo # NoPath) =>
        /\ NormalizedTo \in DOMAIN cache_dir
        /\ cache_dir[NormalizedTo].content
              = <<ClipMp3, before.clip.st_size, before.clip.st_mtime_ns>>
        /\ (before.prev.ref_audio = ClipMp3 /\ before.prev.clean # NoPath) =>
              (NormalizedTo = before.prev.clean <=> before.prev.clip = before.clip)

(* the clip was converted, then edited, then normalized again: the cache   *)
(* file of its earlier version is still in the directory and was not       *)
(* returned                                                                *)
C19_Witness ==
    /\ Normalizing(ClipMp3) /\ NormalizedTo # NoPath
    /\ before.prev.ref_audio = ClipMp3 /\ before.prev.clean # NoPath
    /\ before.prev.clip # before.clip
    /\ before.prev.clean \in DOMAIN cache_dir
    /\ NormalizedTo # before.prev.clean

-----------------------------------------------------------------------------
(* The context lookup on its own: _get_or_prepare_clone_context applied to *)
(* references and transcripts of every kind, with allow_persist either     *)
(* way, between loads, unloads, clone generations and edits of the clip    *)

MaxPrepare == 3             \* input lines and calls per run of SpecPrepare

(* one call of _get_or_prepare_clone_context, server.py lines 455-475: the *)
(* cache it leaves, the engine call it made, and the pair it returned      *)
PrepareContext(max, paths, texts, prepares) ==
    \E p \in paths, t \in texts, allow \in BOOLEAN, prep \in prepares :
        LET g == _get_or_prepare_clone_context(cache_dir, p, t, allow, prep) IN
        /\ ReadLine(max, [kind |-> "call", fn |-> "_get_or_prepare_clone_context",
                          clean_ref_audio_path |-> p, ref_text |-> t,
                          allow_persist |-> allow],
                    [kind |-> "prepare", prepare |-> prep])
        /\ _clone_context_cache' = g.cache
        /\ last_use' = LastUse(g.cache, g.key)
        /\ log' = g.events \o (IF g.raised # None THEN <<>>
                                ELSE <<Returned("_get_or_prepare_clone_context",
                                                [context |-> g.context, hit |-> g.hit])>>)
        /\ exception' = g.raised
        /\ UNCHANGED <<_current_model, _current_model_path, _load_model_fn, cache_dir,
                       out_files, voice_files, loads>>

PrepLoad ==
    /\ nreq = 0
    /\ LoadModel(MaxPrepare, {"r1"}, LoadById({"pro_clone"}), {Loads(TRUE), Loads(FALSE)})

PrepUnload ==
    /\ nreq >= 1
    /\ UnloadModel(MaxPrepare, {"r1"})

PrepCall ==
    /\ nreq >= 1
    /\ PrepareContext(MaxPrepare, {RefWav, ClipMp3}, {" hi ", "hi", "yo", ""},
                      {"ok", "raises"})

PrepClone ==
    /\ nreq >= 1
    /\ Generate(MaxPrepare, {"r1"}, CloneParams({RefWav}, {" hi ", None}), {"ok"},
                {OneSegment})

PrepEdit ==
    /\ nreq >= 1
    /\ EditClip(MaxEdits, {"touch", "resize"})

NextPrepare == Start \/ PrepLoad \/ PrepUnload \/ PrepCall \/ PrepClone \/ PrepEdit

SpecPrepare == Init /\ [][NextPrepare]_vars

(* the last step was a call of the lookup *)
Called == req.kind = "call"

(* the lookup got past the checks of lines 457-463 *)
Applicable ==
    /\ _load_model_fn # None
    /\ before.model # NoModel /\ before.model.can_prepare
    /\ req.ref_text # None /\ req.ref_text # ""

(* the audio the reference held when the call was made, and the key the    *)
(* call computed from it                                                   *)
AudioThen ==
    IF req.clean_ref_audio_path = ClipMp3
    THEN <<ClipMp3, before.clip.st_size, before.clip.st_mtime_ns>>
    ELSE AudioOf(before.dir, req.clean_ref_audio_path)

KeyThen ==
    <<before.path, req.clean_ref_audio_path, AudioThen[2], AudioThen[3],
      Strip(req.ref_text)>>

(* what the call returned *)
Answer == log[Len(log)].value

Miss == Called /\ Applicable /\ KeyThen \notin Keys(before.cache)

(* C28: on a miss the cache is modified exactly when prepare returned and  *)
(* allow_persist is true, and then by the insertion of the new context;    *)
(* when prepare raises or allow_persist is false the entries and their     *)
(* order are as before, and with allow_persist false the new context is    *)
(* still returned, with the hit flag false.                                *)
C28_MissStoresOnlyWhenAllowed ==
    Miss =>
        /\ \E i \in 1..Len(log) : IsCall(log[i], "prepare_icl_context")
        /\ _clone_context_cache # before.cache
              <=> (exception = None /\ req.allow_persist)
        /\ exception = None =>
              /\ Answer.hit = "false"
              /\ Answer.context
                    = [by |-> before.model.inst, ref_audio |-> req.clean_ref_audio_path,
                       ref_text |-> Strip(req.ref_text), audio |-> AudioThen]
              /\ req.allow_persist =>
                    _clone_context_cache
                        = _cache_clone_context(before.cache, KeyThen, Answer.context)

(* a context was prepared beside a filled cache and was not stored *)
C28_Witness ==
    /\ Miss /\ ~req.allow_persist /\ exception = None
    /\ before.cache # <<>>
    /\ _clone_context_cache = before.cache
    /\ Answer.hit = "false" /\ Answer.context # NoContext

(* C29: with no model resident, with a model that does not support        *)
(* prepared conditioning, or with an empty transcript, the lookup returns  *)
(* no context and no hit flag, leaves the cache and its order as they      *)
(* were and does not call prepare; a clone generation then runs the        *)
(* model's own generate and reports prepared_clone_used = false with       *)
(* clone_cache_hit unset.                                                  *)
C29_NotApplicableLeavesCacheAlone ==
    /\ (Called /\ ~Applicable) =>
          /\ log = <<Returned("_get_or_prepare_clone_context",
                              [context |-> NoContext, hit |-> None])>>
          /\ _clone_context_cache = before.cache
    /\ ( /\ IsRequest("generate") /\ exception = None
         /\ \/ ~before.model.can_prepare
            \/ _resolve_clone_transcript(before.dir, req.params.ref_audio,
                                         req.params.ref_text) = None )
       => /\ _clone_context_cache = before.cache
          /\ \A i \in 1..Len(log) :
                /\ ~IsCall(log[i], "prepare_icl_context")
                /\ ~IsCall(log[i], "generate_with_prepared_icl")
          /\ \E i \in 1..Len(log) : IsCall(log[i], "model.generate")
          /\ log[Len(log)].result.benchmark.prepared_clone_used = FALSE
          /\ log[Len(log)].result.benchmark.clone_cache_hit = None

(* a clone without a transcript ran the model's own generate beside a      *)
(* filled cache                                                            *)
C29_Witness ==
    /\ IsRequest("generate") /\ exception = None
    /\ before.model.can_prepare
    /\ req.params.ref_text = None
    /\ before.cache # <<>> /\ _clone_context_cache = before.cache
    /\ \E i \in 1..Len(log) : IsCall(log[i], "model.generate")
    /\ log[Len(log)].result.benchmark.clone_cache_hit = None

(* C30: a lookup is a hit only when an entry is stored under the model     *)
(* path, the reference path, its size, its modification time and the       *)
(* trimmed transcript of the call; the context a hit returns is that       *)
(* entry's, prepared from the audio the reference holds now and for this   *)
(* transcript, never from an earlier version.                              *)
C30_HitNeedsAllFiveComponents ==
    (Called /\ exception = None /\ Answer.hit = "true") =>
        /\ Applicable
        /\ KeyThen \in Keys(before.cache)
        /\ Answer.context = CacheGet(before.cache, KeyThen)
        /\ Answer.context.audio = AudioThen
        /\ Answer.context.ref_text = Strip(req.ref_text)
        /\ Answer.context.by = before.model.inst

(* the clip's context was stored, the clip was edited, and the next lookup *)
(* for it with the same transcript prepared a new context                  *)
C30_Witness ==
    /\ Called /\ exception = None /\ req.clean_ref_audio_path = ClipMp3
    /\ \E i \in 1..Len(before.cache) :
          /\ before.cache[i].key[2] = ClipMp3
          /\ before.cache[i].key[5] = Strip(req.ref_text)
          /\ <<before.cache[i].key[3], before.cache[i].key[4]>>
                # <<before.clip.st_size, before.clip.st_mtime_ns>>
    /\ Answer.hit = "false"
    /\ Answer.context.audio = AudioThen

-----------------------------------------------------------------------------
(* Access order in the persistent reference cache: earlier runs left the   *)
(* directory at its limit, the conversion of the clip as it is now being   *)
(* the file used longest ago                                               *)

ClipEntry == <<"cache", "clip", ClipMp3, 400, 4>>

UsedLongAgo ==
    [p \in DOMAIN LeftBehind(NORMALIZED_CLONE_REF_CACHE_LIMIT - 1, {}) \cup {ClipEntry} |->
        IF p = ClipEntry
        THEN [st_mtime |-> 1 - NORMALIZED_CLONE_REF_CACHE_LIMIT, st_size |-> 48,
              content |-> <<ClipMp3, 400, 4>>]
        ELSE LeftBehind(NORMALIZED_CLONE_REF_CACHE_LIMIT - 1, {})[p]]

InitAccess == InitWith({UsedLongAgo})

SpecAccess == InitAccess /\ [][NextNormalize]_vars

(* when a file that went through the last line's pruning pass was last     *)
(* created or served, and whether the pass removed it for its age          *)
AccessThen(p) == IF p \in DOMAIN before.dir THEN before.dir[p].st_mtime ELSE now - 1

AgedOut(p) == (now - 1) - AccessThen(p) > NORMALIZED_CLONE_REF_MAX_AGE_SECONDS

RemovedForCapacity == {p \in DOMAIN before.dir \ DOMAIN cache_dir : ~AgedOut(p)}

(* the last line was served the file p from the cache *)
ServedFromCache(p) ==
    /\ IsRequest("generate") /\ NormalizedTo = p
    /\ ConversionRuns = 0 /\ p \in DOMAIN before.dir

C32_ReturnedFileExists ==
    (IsRequest("generate") /\ NormalizedTo # NoPath) =>
        /\ \/ NormalizedTo = req.params.ref_audio /\ RefOnDisk(NormalizedTo).exists
           \/ NormalizedTo \in DOMAIN cache_dir
        /\ Converted =>
              /\ NormalizedTo \notin RemovedForCapacity
              /\ cache_dir[NormalizedTo].st_mtime = now - 1

(* a conversion into a directory at its limit with no file past the age:   *)
(* the pass made room by removing another file                             *)
C32_Witness ==
    /\ Converted
    /\ Cardinality(DOMAIN before.dir) = NORMALIZED_CLONE_REF_CACHE_LIMIT
    /\ \A p \in DOMAIN before.dir : ~AgedOut(p)
    /\ NormalizedTo \notin DOMAIN before.dir
    /\ NormalizedTo \in DOMAIN cache_dir
    /\ RemovedForCapacity # {}

(* C33: the normalization of a source that is a valid WAV container       *)
(* returns the source path itself and leaves the persistent cache          *)
(* directory as it was: no file is created, removed or touched, and the    *)
(* conversion utility is not run.                                          *)
C33_ValidWavIsReturnedAsIs ==
    Normalizing(RefWav) =>
        /\ NormalizedTo = RefWav
        /\ cache_dir = before.dir
        /\ ConversionRuns = 0

(* a WAV reference was used while the directory held files a pruning pass  *)
(* would have removed                                                      *)
C33_Witness ==
    /\ Normalizing(RefWav) /\ exception = None
    /\ NormalizedTo = RefWav
    /\ \E p \in DOMAIN before.dir : AgedOut(p) /\ p \in DOMAIN cache_dir
    /\ Cardinality(DOMAIN cache_dir) > NORMALIZED_CLONE_REF_CACHE_LIMIT

-----------------------------------------------------------------------------
(* Streaming: requests with and without the stream flag, a reference clip  *)
(* and an id, against engines that yield any number of segments, also      *)
(* before a model is loaded                                                *)

MaxStreaming == 2           \* input lines per run of SpecStreaming

StreamModes ==
    {[GenDefaults EXCEPT !.voice = "ryan", !.ref_audio = r, !.ref_text = " hi ",
                         !.stream = st, !.benchmark = TRUE] :
        r \in {NoPath, RefWav}, st \in BOOLEAN}

StreamLoad ==
    /\ nreq = 0
    /\ LoadModel(MaxStreaming, {"r1"}, LoadById({"pro_custom"}), {Loads(TRUE), Loads(FALSE)})

StreamEarly ==
    /\ nreq = 0
    /\ Generate(MaxStreaming, {"r1"}, StreamParams({ExplicitOutput}), {"ok"}, {OneSegment})

StreamGenerate ==
    /\ nreq >= 1
    /\ Generate(MaxStreaming, {"r1", None}, StreamModes, {"ok"}, EngineRuns)

NextStreaming == Start \/ StreamLoad \/ StreamEarly \/ StreamGenerate

SpecStreaming == Init /\ [][NextStreaming]_vars

(* what the last generate asked for *)
StreamRequested ==
    req.params.stream /\ req.id # None /\ req.params.ref_audio = NoPath

(* the streaming branch ran, line 744 *)
StreamingBranchRan ==
    \E i \in 1..Len(log) : log[i] = send_progress(40, "Streaming audio...")

(* C35 as stated: a generate emits generation_chunk notifications if and   *)
(* only if stream is true, the id is not null and no reference clip is     *)
(* given, and the streaming branch runs for exactly those requests.        *)
C35_ChunkNotesIffStreamRequested ==
    IsRequest("generate") =>
        /\ ChunkNotes # <<>> <=> StreamRequested
        /\ StreamingBranchRan <=> StreamRequested

(* C35: generation_chunk notifications come from the streaming branch      *)
(* alone, which runs exactly for the requests that pass the checks on the  *)
(* model and the text with stream true, an id and no reference clip; the   *)
(* branch notifies one chunk per segment the engine yields (none when it   *)
(* yields none); a request with a reference clip notifies none, with or    *)
(* without stream; and the benchmark flag streaming_used of a result is    *)
(* true exactly when stream is true, the id not null and no clip given.    *)
C35_ChunkNotesOnlyFromStreamingBranch ==
    IsRequest("generate") =>
        /\ StreamingBranchRan <=> (Attempted /\ StreamRequested)
        /\ ChunkNotes # <<>> => StreamingBranchRan
        /\ StreamingBranchRan => Len(ChunkNotes) = Len(world.run.chunks)
        /\ req.params.ref_audio # NoPath => ChunkNotes = <<>>
        /\ (IsSuccess(log[Len(log)]) /\ req.params.benchmark) =>
              (log[Len(log)].result.benchmark.streaming_used <=> StreamRequested)

(* a clone with stream = true and an id notified no chunk and reported     *)
(* streaming_used = false                                                  *)
C35_Witness ==
    /\ IsRequest("generate") /\ IsSuccess(log[Len(log)])
    /\ req.params.stream /\ req.id # None /\ req.params.ref_audio # NoPath
    /\ ChunkNotes = <<>>
    /\ ~log[Len(log)].result.benchmark.streaming_used

-----------------------------------------------------------------------------
(* Validation of load_model: requests that name an unknown model, a model  *)
(* whose folder is not on disk, or nothing at all, among loads, unloads    *)
(* and clone generations                                                   *)

MaxValidation == 3          \* input lines per run of SpecValidation

InvalidLoads == LoadById({"pro_max", "pro_design", None})

ValidLoad ==
    LoadModel(MaxValidation, {"r1"}, LoadById({"pro_custom", "pro_clone"}), {Loads(TRUE)})

RejectedLoad == LoadModel(MaxValidation, {"r1", None}, InvalidLoads, {Loads(TRUE)})

ValidationUnload == UnloadModel(MaxValidation, {"r1"})

ValidationClone ==
    Generate(MaxValidation, {"r1"}, CloneParams({RefWav}, {" hi "}), {"ok"}, {OneSegment})

NextValidation == Start \/ ValidLoad \/ RejectedLoad \/ ValidationUnload \/ ValidationClone

SpecValidation == Init /\ [][NextValidation]_vars

(* the last line was a load_model that validation rejected *)
Rejected == IsRequest("load_model") /\ ~LoadTarget(req.params).ok

(* C36: a load_model that names an unknown model, a model whose folder is  *)
(* not on disk, or neither a model nor a path is answered with the error   *)
(* and nothing else: no progress is notified, the engine is not called,    *)
(* and the resident model, its recorded path and the conditioning cache    *)
(* are as before.                                                          *)
C36_RejectedLoadHasNoSideEffect ==
    Rejected =>
        /\ log = <<send_error(req.id, -32000, LoadTarget(req.params).message)>>
        /\ ServiceUntouched
        /\ \/ req.params.model_id = None
           \/ req.params.model_id \notin DOMAIN MODELS
           \/ get_smart_path(MODELS[req.params.model_id].folder) = NoPath

(* a model with a prepared context was resident when a load for a model    *)
(* that is not on disk was rejected                                        *)
C36_Witness ==
    /\ Rejected /\ req.params.model_id = "pro_design"
    /\ exception = "Model not found on disk"
    /\ before.model # NoModel /\ before.cache # <<>>
    /\ _current_model = before.model /\ _clone_context_cache = before.cache

-----------------------------------------------------------------------------
(* Conversions: convert_audio for clips of every kind, with and without an *)
(* output path, while the user edits the clip between requests             *)

MaxConvert == 3             \* input lines per run of SpecConvert

Conversions ==
    {[input_path |-> i, output_path |-> o] :
        i \in {ClipMp3, RefWav, MissingClip, NoPath}, o \in {NoPath, ExplicitOutput}}

ConvertLine == ConvertAudio(MaxConvert, {"r1"}, Conversions, {"ok", "fails"})

ConvertEdit == EditClip(MaxEdits, {"touch", "resize"})

NextConvert == Start \/ ConvertLine \/ ConvertEdit

SpecConvert == Init /\ [][NextConvert]_vars

(* the last line was a convert_audio without output_path that ran the      *)
(* conversion and returned its file                                        *)
ConvertedToTemp ==
    /\ IsRequest("convert_audio") /\ exception = None
    /\ req.params.output_path = NoPath
    /\ \E i \in 1..Len(log) : IsCall(log[i], "ffmpeg")

(* C37 as stated: the file a converting convert_audio without output_path  *)
(* returns is a new one: no file that an earlier such request returned is  *)
(* at its path, so none is overwritten.                                    *)
C37_ConversionsReturnDistinctFiles ==
    ConvertedToTemp =>
        LET wav_path == log[Len(log)].result.wav_path IN
        /\ wav_path \in DOMAIN out_files
        /\ wav_path \notin DOMAIN before.files

(* what list_voices would report now for the voice `name` *)
ListedNow(name) == SelectSeq(handle_list_voices(<<>>).result, LAMBDA v : v.name = name)

(* C38 as stated: after an enrollment, list_voices reports the enrolled     *)
(* voice once, with has_transcript = true exactly when this enrollment,     *)
(* the most recent one under the name, supplied a transcript that is not    *)
(* empty.                                                                   *)
C38_TranscriptFollowsLastEnrollment ==
    (IsRequest("enroll_voice") /\ exception = None) =>
        /\ Len(ListedNow(log[Len(log)].result.name)) = 1
        /\ ListedNow(log[Len(log)].result.name)[1].has_transcript
              <=> (req.params.transcript # None /\ req.params.transcript # "")

-----------------------------------------------------------------------------
(* Deleting voices: enrollments with and without a transcript, deletes of   *)
(* voices that are and are not there, and listings                          *)

MaxDelete == 3              \* input lines per run of SpecDelete

DeleteEnroll ==
    EnrollVoice(MaxDelete, {"r1"},
                {[name |-> n, audio_path |-> RefWav, transcript |-> t] :
                    n \in {"Test Voice!", " a b "}, t \in {"hello there", None}},
                {"ok"})

DeleteLine == DeleteVoice(MaxDelete, {"r1"}, {"Test Voice!", " a b ", "!?"})

DeleteList == ListVoices(MaxDelete, {"r1"})

NextDelete == Start \/ DeleteEnroll \/ DeleteLine \/ DeleteList

SpecDelete == Init /\ [][NextDelete]_vars

(* the files of the voices directory that belong to the voice `name` *)
FilesOf(files, name) == {f \in DOMAIN files : f[1] = name}

(* C39: after a delete_voice neither the .wav nor the .txt of the           *)
(* sanitized name is there and list_voices does not list the name; success  *)
(* is true exactly when the .wav was there before, so the same delete once  *)
(* more answers success = false and changes nothing; the files of the       *)
(* other voices are as they were.                                           *)
C39_DeleteRemovesVoiceOnly ==
    (IsRequest("delete_voice") /\ exception = None) =>
        LET name == SafeName(req.params.name) IN
        /\ FilesOf(voice_files, name) = {}
        /\ ListedNow(name) = <<>>
        /\ log[Len(log)].result.success <=> <<name, ".wav">> \in DOMAIN before.voices
        /\ \A f \in DOMAIN before.voices :
              f[1] # name => f \in DOMAIN voice_files /\ voice_files[f] = before.voices[f]
        /\ DOMAIN voice_files \subseteq DOMAIN before.voices
        /\ (before.prev.method = "delete_voice" /\ before.prev.code = 0
              /\ SafeName(before.prev.name) = name)
            => /\ ~log[Len(log)].result.success
               /\ voice_files = before.voices

(* Test_Voice was deleted, and the same delete once more found nothing to  *)
(* remove                                                                  *)
C39_Witness ==
    /\ IsRequest("delete_voice") /\ exception = None
    /\ req.params.name = "Test Voice!"
    /\ before.prev.method = "delete_voice" /\ before.prev.code = 0
    /\ before.prev.name = "Test Voice!"
    /\ ~log[Len(log)].result.success
    /\ voice_files = before.voices

-----------------------------------------------------------------------------
(* The benchmark client, scripts/benchmark_generation.py: BackendClient    *)
(* starts the service as a child process, a daemon thread reads the        *)
(* child's stdout into a queue, and call writes one request and takes      *)
(* messages from the queue until the answer to it arrives.                 *)

MaxCalls == 3

(* a line of the child's stdout: a frame, or something that is not JSON    *)
JsonLine(message) == [text |-> "json", message |-> message]
StrayLine == [text |-> "not json"]
BlankLine == [text |-> "blank"]

(* what the service writes while it processes the request `r`: frames      *)
(* built by send_response, send_error, send_progress and                   *)
(* send_generation_chunk, which carry the id of the request, and           *)
(* possibly a line printed by a library                                    *)
Answers(r) ==
    LET ok == JsonLine(send_response(r.id, [success |-> TRUE]))
        chunk == JsonLine(send_notification("generation_chunk",
                     [request_id |-> r.id, chunk_index |-> 0,
                      chunk_path |-> <<"outputs", "chunk">>, is_final |-> FALSE]))
    IN  IF r.method = "ping"
        THEN { <<ok>>, <<BlankLine, ok>> }
        ELSE { <<chunk, ok>>,
               <<JsonLine(send_progress(15, "Preparing request...")), ok>>,
               <<StrayLine, JsonLine(send_error(r.id, -32000, "No model loaded"))>> }

(* message.get("id") == request_id, line 216: a notification has no id *)
IsAnyAnswer(message, request_id) == "id" \in DOMAIN message

IsAnswerTo(message, request_id) == "id" \in DOMAIN message /\ message.id = request_id

(* params_obj.get("request_id") == request_id, lines 237-239 *)
IsChunkOf(message, request_id) ==
    /\ "params" \in DOMAIN message
    /\ "request_id" \in DOMAIN message.params
    /\ message.params.request_id = request_id

Idle == [pc |-> "idle"]

(* BackendClient.call, lines 209-242: one turn of the loop with            *)
(* `message` taken from the queue; the times of the metrics are left out   *)
call_turn(locals, message) ==
    IF IsAnswerTo(message, locals.request_id)
    THEN IF "error" \in DOMAIN message
         THEN [caller |-> Idle,
               outcome |-> [kind |-> "raised", exception |-> "RuntimeError",
                            request_id |-> locals.request_id,
                            message |-> message.error.message]]
         ELSE [caller |-> Idle,
               outcome |-> [kind |-> "returned", request_id |-> locals.request_id,
                            result |-> message.result,
                            metrics |-> [request_id |-> locals.request_id,
                                         progress_count |-> locals.progress_count,
                                         chunk_count |-> locals.chunk_count]]]
    ELSE [caller |->
            IF "method" \in DOMAIN message /\ message.method = "progress"
            THEN [locals EXCEPT !.progress_count = @ + 1]
            ELSE IF "method" \in DOMAIN message /\ message.method = "generation_chunk"
                    /\ IsChunkOf(message, locals.request_id)
            THEN [locals EXCEPT !.chunk_count = @ + 1]
            ELSE locals,
          outcome |-> [kind |-> "none"]]

(* BackendClient.call, lines 186-207: the next id is taken, the request    *)
(* is written to the child's stdin and the counters start at zero.  The    *)
(* child is running: start() returned after the ready notification.        *)
ClientCall(max, methods) ==
    \E method \in methods :
        /\ pc = "running"
        /\ caller.pc = "idle"
        /\ _next_id <= max
        /\ _next_id' = _next_id + 1
        /\ proc_stdin' = Append(proc_stdin, [id |-> _next_id, method |-> method])
        /\ caller' = [pc |-> "waiting", method |-> method, request_id |-> _next_id,
                      progress_count |-> 0, chunk_count |-> 0]
        /\ outcome' = [kind |-> "none"]
        /\ taken' = <<>>
        /\ UNCHANGED <<_events, proc_stdout>>
        /\ UNCHANGED server_vars

(* BackendClient.call, lines 209-242: self._events.get returned a message; *)
(* queue.Empty only starts the loop again                                  *)
ClientGet ==
    /\ caller.pc = "waiting"
    /\ _events # <<>>
    /\ _events' = Tail(_events)
    /\ taken' = Append(taken, Head(_events))
    /\ caller' = call_turn(caller, Head(_events)).caller
    /\ outcome' = call_turn(caller, Head(_events)).outcome
    /\ UNCHANGED <<_next_id, proc_stdin, proc_stdout>>
    /\ UNCHANGED server_vars

(* BackendClient.call, lines 209 and 244: the deadline passed before the   *)
(* answer was taken from the queue                                         *)
ClientTimeout ==
    /\ caller.pc = "waiting"
    /\ caller' = Idle
    /\ outcome' = [kind |-> "raised", exception |-> "TimeoutError",
                   request_id |-> caller.request_id]
    /\ UNCHANGED <<_next_id, _events, proc_stdin, proc_stdout, taken>>
    /\ UNCHANGED server_vars

(* BackendClient._stdout_loop, lines 121-137, in its own thread: one line  *)
(* of the child's stdout; a blank line and a line that is not JSON are     *)
(* skipped, a message is put on the queue.  The record of the event in     *)
(* the rpc log is left out, nothing reads it.                              *)
_stdout_loop ==
    /\ proc_stdout # <<>>
    /\ proc_stdout' = Tail(proc_stdout)
    /\ _events' = IF Head(proc_stdout).text = "json"
                  THEN Append(_events, Head(proc_stdout).message)
                  ELSE _events
    /\ UNCHANGED <<_next_id, proc_stdin, caller, outcome, taken>>
    /\ UNCHANGED server_vars

(* the service, one request after the other in the order they were         *)
(* written (server.py, main, lines 995-999): it answers the oldest one     *)
Serve ==
    /\ proc_stdin # <<>>
    /\ \E lines \in Answers(Head(proc_stdin)) : proc_stdout' = proc_stdout \o lines
    /\ proc_stdin' = Tail(proc_stdin)
    /\ UNCHANGED <<_next_id, _events, caller, outcome, taken>>
    /\ UNCHANGED server_vars

ClientCalls == ClientCall(MaxCalls, {"ping", "generate"})

NextClient == Start \/ ClientCalls \/ ClientGet \/ ClientTimeout \/ _stdout_loop \/ Serve

SpecClient == Init /\ [][NextClient]_vars

(* the chunk notifications of request `id` among the messages taken *)
ChunksTaken(id) ==
    Cardinality({i \in 1..Len(taken) : IsChunkNote(taken[i]) /\ taken[i].params.request_id = id})

(* the call that just ended answered with the response to its own request  *)
AnsweredOwnRequest ==
    /\ outcome.kind = "returned" =>
          /\ taken # <<>>
          /\ IsSuccess(taken[Len(taken)])
          /\ taken[Len(taken)].id = outcome.request_id
          /\ outcome.result = taken[Len(taken)].result
          /\ outcome.metrics.request_id = outcome.request_id
          /\ outcome.metrics.chunk_count = ChunksTaken(outcome.request_id)
    /\ outcome.kind = "raised" /\ outcome.exception = "RuntimeError" =>
          /\ taken # <<>>
          /\ IsError(taken[Len(taken)])
          /\ taken[Len(taken)].id = outcome.request_id
          /\ outcome.message = taken[Len(taken)].error.message
    /\ outcome.kind # "none" =>
          /\ outcome.request_id = _next_id - 1
          /\ \A i \in 1..(Len(taken) - 1) :
                IsResponse(taken[i]) => taken[i].id # outcome.request_id

(* C40: BackendClient.call returns, or raises with, only the response      *)
(* whose id is the id it just sent: every call takes an id one above the   *)
(* last, so ids are distinct and increasing, and writes it to the backend; *)
(* when a call ends with a result or an RPC error, that is the response    *)
(* with its own id, the last message it took from the queue, everything    *)
(* taken before it (the late response of an earlier call that timed out    *)
(* included) being discarded; and chunk_count is the number of             *)
(* generation_chunk notifications taken whose request_id is that id.       *)
C40_CallAnswersOwnRequest ==
    [][ /\ (outcome' # outcome => AnsweredOwnRequest')
        /\ (_next_id' # _next_id =>
               /\ _next_id' = _next_id + 1
               /\ caller'.request_id = _next_id
               /\ proc_stdin'[Len(proc_stdin')].id = _next_id
               /\ \A i \in 1..Len(proc_stdin) : proc_stdin[i].id < _next_id) ]_vars

(* a call returned its own response after it discarded the late response   *)
(* to an earlier call and a chunk notification of that earlier call, and   *)
(* counted the one chunk notification of its own request                   *)
C40_Witness ==
    /\ outcome.kind = "returned"
    /\ outcome.metrics.chunk_count = 1
    /\ \E i \in 1..Len(taken) : IsResponse(taken[i]) /\ taken[i].id < outcome.request_id
    /\ \E i \in 1..Len(taken) :
          IsChunkNote(taken[i]) /\ taken[i].params.request_id < outcome.request_id

====
